---- MODULE Spec2Model ----
(***************************************************************************)
(* Schedule-resolution engine of Project-Synapse: notation parser, period  *)
(* and weekday tables, semester repository, date expander and the          *)
(* precise-mode session merger with its week index.                        *)
(*                                                                         *)
(* Representation of Python values:                                        *)
(*   str        a sequence of characters; a character is a one-element     *)
(*              name, the seven ideographic weekday characters being       *)
(*              written by their readings "yi" "er" "san" "si" "wu" "liu"  *)
(*              "ri" (U+4E00 U+4E8C U+4E09 U+56DB U+4E94 U+516D U+65E5)    *)
(*   Optional   None is <<>>, a present value v is <<v>>                   *)
(*   time       minutes since midnight (time(h, m))                        *)
(*   datetime   proleptic Gregorian day ordinal (date.toordinal()); every  *)
(*              datetime the repository stores is a midnight value         *)
(*              (datetime(y, m, d) in the seed, strptime('%Y%m%d') in the  *)
(*              calendar sync)                                             *)
(***************************************************************************)
EXTENDS Integers, Sequences, FiniteSets, TLC

VARIABLES
    SEMESTER_DATABASE,  \* the process-wide semester table, keyed by <<year, semester>>
    pc,                 \* "ready": the call below has not run yet; "done": it has returned
    call,               \* the call under observation: its operation and its arguments
    ret,                \* what the call returned (None while it has not run)
    writer,             \* the thread that writes the semester table: what it is
                        \* doing and how far it has come
    batch,              \* the import batch in progress: its rows, its counters, the
                        \* courses it created and the session requests it sent
    frame               \* the local variables of a get_class_dates call that is
                        \* running while the table is written

vars == <<SEMESTER_DATABASE, pc, call, ret, writer, batch, frame>>

----------------------------------------------------------------------------
(* Python values *)

None == <<>>
Some(v) == <<v>>

time(h, m) == h * 60 + m

\* a list value: the sequence q with every element computed once
list(q) == SubSeq(q, 1, Len(q))

Ideographs == {"yi", "er", "san", "si", "wu", "liu", "ri"}

AsciiLetters ==
    {"a", "b", "c", "d", "e", "f", "g", "h", "i", "j", "k", "l", "m",
     "n", "o", "p", "q", "r", "s", "t", "u", "v", "w", "x", "y", "z",
     "A", "B", "C", "D", "E", "F", "G", "H", "I", "J", "K", "L", "M",
     "N", "O", "P", "Q", "R", "S", "T", "U", "V", "W", "X", "Y", "Z"}

Digits == <<"0", "1", "2", "3", "4", "5", "6", "7", "8", "9">>

\* the character class [...a-zA-Z] of the token pattern
IsWeekdayChar(c) == c \in Ideographs \cup AsciiLetters

\* the character class \d of the token pattern
IsDigit(c) == \E i \in 1..Len(Digits) : Digits[i] = c

IsSpace(c) == c = " "

DigitValue(c) == (CHOOSE i \in 1..Len(Digits) : Digits[i] = c) - 1

\* int(s) for a string of decimal digits
RECURSIVE int(_)
int(s) ==
    IF s = <<>> THEN 0
    ELSE 10 * int(SubSeq(s, 1, Len(s) - 1)) + DigitValue(s[Len(s)])

\* str(n) for n >= 0
RECURSIVE str(_)
str(n) ==
    IF n < 10 THEN <<Digits[n + 1]>>
    ELSE str(n \div 10) \o <<Digits[(n % 10) + 1]>>

----------------------------------------------------------------------------
(* config/course_schedule_config.py *)

CLASS_PERIODS ==
    <<  <<time(6, 10),  time(7, 0)>>,
        <<time(7, 10),  time(8, 0)>>,
        <<time(8, 10),  time(9, 0)>>,
        <<time(9, 10),  time(10, 0)>>,
        <<time(10, 20), time(11, 10)>>,
        <<time(11, 20), time(12, 10)>>,
        <<time(12, 10), time(13, 0)>>,
        <<time(13, 10), time(14, 0)>>,
        <<time(14, 10), time(15, 0)>>,
        <<time(15, 10), time(16, 0)>>,
        <<time(16, 20), time(17, 10)>>,
        <<time(17, 20), time(18, 10)>>,
        <<time(18, 30), time(19, 20)>>,
        <<time(19, 30), time(20, 20)>> >>

\* the keys and values of WEEKDAY_MAP, as <<token, index>> pairs
WEEKDAY_MAP ==
    { <<<<"yi">>, 0>>, <<<<"er">>, 1>>, <<<<"san">>, 2>>, <<<<"si">>, 3>>,
      <<<<"wu">>, 4>>, <<<<"liu">>, 5>>, <<<<"ri">>, 6>>,
      <<<<"M", "o", "n">>, 0>>, <<<<"M", "o", "n", "d", "a", "y">>, 0>>,
      <<<<"T", "u", "e">>, 1>>, <<<<"T", "u", "e", "s", "d", "a", "y">>, 1>>,
      <<<<"W", "e", "d">>, 2>>, <<<<"W", "e", "d", "n", "e", "s", "d", "a", "y">>, 2>>,
      <<<<"T", "h", "u">>, 3>>, <<<<"T", "h", "u", "r", "s", "d", "a", "y">>, 3>>,
      <<<<"F", "r", "i">>, 4>>, <<<<"F", "r", "i", "d", "a", "y">>, 4>>,
      <<<<"S", "a", "t">>, 5>>, <<<<"S", "a", "t", "u", "r", "d", "a", "y">>, 5>>,
      <<<<"S", "u", "n">>, 6>>, <<<<"S", "u", "n", "d", "a", "y">>, 6>> }

\* WEEKDAY_MAP.get(weekday_str)
WEEKDAY_MAP_get(weekday_str) ==
    IF \E e \in WEEKDAY_MAP : e[1] = weekday_str
    THEN Some((CHOOSE e \in WEEKDAY_MAP : e[1] = weekday_str)[2])
    ELSE None

\* a slip: a period off the table takes the times of the nearest one
get_period_time_of_nearest(period) ==
    Some(CLASS_PERIODS[IF period < 1 THEN 1
                       ELSE IF period > Len(CLASS_PERIODS) THEN Len(CLASS_PERIODS)
                       ELSE period])

\* CLASS_PERIODS.get(period)
get_period_time(period) ==
    IF period \in DOMAIN CLASS_PERIODS THEN Some(CLASS_PERIODS[period]) ELSE None

\* datetime(year, month, day): the day ordinal of a midnight datetime
IsLeap(year) == year % 4 = 0 /\ (year % 100 # 0 \/ year % 400 = 0)

DaysBeforeMonth == <<0, 31, 59, 90, 120, 151, 181, 212, 243, 273, 304, 334>>

datetime(year, month, day) ==
    LET y == year - 1 IN
    y * 365 + (y \div 4) - (y \div 100) + (y \div 400)
      + DaysBeforeMonth[month] + (IF month > 2 /\ IsLeap(year) THEN 1 ELSE 0)
      + day

\* datetime.weekday(): Monday is 0, Sunday is 6
weekday_of(d) == (d + 6) % 7

\* the Semester dataclass
Semester(year, semester, start_date, end_date) ==
    [year |-> year, semester |-> semester, start_date |-> start_date, end_date |-> end_date]

\* the module-level default of SEMESTER_DATABASE
SeedDatabase ==
    (<<113, 1>> :> Semester(113, 1, datetime(2024, 9, 1), datetime(2025, 1, 31))) @@
    (<<113, 2>> :> Semester(113, 2, datetime(2025, 2, 1), datetime(2025, 6, 30))) @@
    (<<114, 1>> :> Semester(114, 1, datetime(2025, 9, 1), datetime(2026, 1, 31))) @@
    (<<114, 2>> :> Semester(114, 2, datetime(2026, 2, 23), datetime(2026, 6, 30))) @@
    (<<115, 1>> :> Semester(115, 1, datetime(2026, 9, 1), datetime(2027, 1, 31))) @@
    (<<115, 2>> :> Semester(115, 2, datetime(2027, 2, 1), datetime(2027, 6, 30)))

\* a slip: an unknown semester falls back to the table's entry for (114, 1)
get_semester_info_with_default(year, semester) ==
    IF <<year, semester>> \in DOMAIN SEMESTER_DATABASE
    THEN Some(SEMESTER_DATABASE[<<year, semester>>])
    ELSE Some(SEMESTER_DATABASE[<<114, 1>>])

\* SEMESTER_DATABASE.get((year, semester))
get_semester_info(year, semester) ==
    IF <<year, semester>> \in DOMAIN SEMESTER_DATABASE
    THEN Some(SEMESTER_DATABASE[<<year, semester>>])
    ELSE None

\* a slip: an entry that is there is removed (del) and not written again
update_semester_info_toggling(year, semester, start_date, end_date) ==
    IF <<year, semester>> \in DOMAIN SEMESTER_DATABASE
    THEN [k \in DOMAIN SEMESTER_DATABASE \ {<<year, semester>>} |-> SEMESTER_DATABASE[k]]
    ELSE (<<year, semester>> :> Semester(year, semester, start_date, end_date))
            @@ SEMESTER_DATABASE

\* a slip: setdefault, an entry that is there is kept
update_semester_info_keeping_existing(year, semester, start_date, end_date) ==
    SEMESTER_DATABASE
        @@ (<<year, semester>> :> Semester(year, semester, start_date, end_date))

\* a slip: the table is rebound to a dict holding the new entry alone
update_semester_info_replacing_table(year, semester, start_date, end_date) ==
    (<<year, semester>> :> Semester(year, semester, start_date, end_date))

\* the table after SEMESTER_DATABASE[(year, semester)] = Semester(...)
update_semester_info(year, semester, start_date, end_date) ==
    (<<year, semester>> :> Semester(year, semester, start_date, end_date))
        @@ SEMESTER_DATABASE

\* get_all_semesters(): SEMESTER_DATABASE.copy()
get_all_semesters == SEMESTER_DATABASE

\* the writer before it has called anything
Idle == [op |-> "idle", given |-> <<>>, semesters |-> <<>>, applied |-> 0]

\* no import is running
NoBatch == <<>>

\* no get_class_dates call is in its loop
NoFrame == <<>>

----------------------------------------------------------------------------
(* utils/course_schedule_parser.py: the notation parser *)

ClassSession(weekday, start_period, end_period, start_time, end_time) ==
    [weekday |-> weekday, start_period |-> start_period, end_period |-> end_period,
     start_time |-> start_time, end_time |-> end_time]

\* first index >= i of s that holds no weekday character (Len(s) + 1 if none)
RECURSIVE LetterRunEnd(_, _)
LetterRunEnd(s, i) ==
    IF i > Len(s) \/ ~IsWeekdayChar(s[i]) THEN i ELSE LetterRunEnd(s, i + 1)

\* first index >= i of s that holds no digit (Len(s) + 1 if none)
RECURSIVE DigitRunEnd(_, _)
DigitRunEnd(s, i) ==
    IF i > Len(s) \/ ~IsDigit(s[i]) THEN i ELSE DigitRunEnd(s, i + 1)

\* re.findall(r'([...a-zA-Z]+)(\d+)', s) scanning from index i: the
\* non-overlapping leftmost matches, each a pair <<weekday_str, period_str>>.
\* The greedy letter run must be followed at once by a digit; a shorter letter
\* run is followed by a letter, so backtracking finds nothing more.
RECURSIVE findall_from(_, _)
findall_from(s, i) ==
    IF i > Len(s) THEN <<>>
    ELSE IF ~IsWeekdayChar(s[i]) THEN findall_from(s, i + 1)
    ELSE LET j == LetterRunEnd(s, i)
             k == DigitRunEnd(s, j)
         IN  IF k > j
             THEN <<  <<SubSeq(s, i, j - 1), SubSeq(s, j, k - 1)>>  >> \o findall_from(s, k)
             ELSE findall_from(s, i + 1)

re_findall(s) == findall_from(s, 1)

\* sep in s
contains(s, sep) == \E i \in 1..Len(s) : s[i] = sep

\* s.split(sep) for a one-character separator: always at least one part
RECURSIVE split(_, _)
split(s, sep) ==
    IF ~contains(s, sep)
    THEN <<s>>
    ELSE LET i == CHOOSE i \in 1..Len(s) : s[i] = sep /\ \A j \in 1..(i - 1) : s[j] # sep
         IN  <<SubSeq(s, 1, i - 1)>> \o split(SubSeq(s, i + 1, Len(s)), sep)

\* str.strip()
RECURSIVE strip(_)
strip(s) ==
    IF s = <<>> THEN s
    ELSE IF IsSpace(s[1]) THEN strip(Tail(s))
    ELSE IF IsSpace(s[Len(s)]) THEN strip(SubSeq(s, 1, Len(s) - 1))
    ELSE s

SeqMin(q) == CHOOSE x \in {q[i] : i \in 1..Len(q)} : \A i \in 1..Len(q) : x <= q[i]
SeqMax(q) == CHOOSE x \in {q[i] : i \in 1..Len(q)} : \A i \in 1..Len(q) : x >= q[i]

\* a slip: "if not weekday" in place of "if weekday is None" takes Monday,
\* index 0, for a miss
first_weekday_falsy(matches) ==
    LET weekday == WEEKDAY_MAP_get(matches[1][1])
    IN  IF weekday = Some(0) THEN None ELSE weekday

\* a slip: a miss does not return, and the next token's weekday is looked up
first_weekday_resolvable(matches) ==
    IF \E i \in 1..Len(matches) : WEEKDAY_MAP_get(matches[i][1]) # None
    THEN WEEKDAY_MAP_get(matches[CHOOSE i \in 1..Len(matches) :
                                    /\ WEEKDAY_MAP_get(matches[i][1]) # None
                                    /\ \A j \in 1..(i - 1) : WEEKDAY_MAP_get(matches[j][1]) = None][1])
    ELSE None

\* the weekday lookup of the first match (the loop looks it up only while
\* weekday is None, and returns on a miss)
first_weekday(matches) == WEEKDAY_MAP_get(matches[1][1])

\* a slip: the span runs from the first period written to the last
period_span_first_last(periods) == <<periods[1], periods[Len(periods)]>>

\* <<min(periods), max(periods)>>
period_span(periods) == <<SeqMin(periods), SeqMax(periods)>>

\* a slip: a group gives a session only if its periods are all those from
\* the smallest to the largest
parse_single_schedule_contiguous_only(schedule_str) ==
    LET matches == re_findall(schedule_str) IN
    IF matches = <<>> THEN <<>>
    ELSE
      LET weekday == first_weekday(matches) IN
      IF weekday = None THEN <<>>
      ELSE
        LET periods == list([i \in 1..Len(matches) |-> int(matches[i][2])])
            min_period == period_span(periods)[1]
            max_period == period_span(periods)[2]
            start_time_obj == get_period_time(min_period)
            end_time_obj == get_period_time(max_period)
        IN  IF /\ start_time_obj # None
               /\ end_time_obj # None
               /\ {periods[i] : i \in 1..Len(periods)} = min_period..max_period
            THEN << ClassSession(weekday[1], min_period, max_period,
                                 start_time_obj[1][1], end_time_obj[1][2]) >>
            ELSE <<>>

\* _parse_single_schedule(schedule_str): zero or one ClassSession
parse_single_schedule(schedule_str) ==
    LET matches == re_findall(schedule_str) IN
    IF matches = <<>> THEN <<>>
    ELSE
      LET weekday == first_weekday(matches) IN
      IF weekday = None THEN <<>>
      ELSE
        LET periods == list([i \in 1..Len(matches) |-> int(matches[i][2])])
            min_period == period_span(periods)[1]
            max_period == period_span(periods)[2]
            start_time_obj == get_period_time(min_period)
            end_time_obj == get_period_time(max_period)
        IN  IF start_time_obj # None /\ end_time_obj # None
            THEN << ClassSession(weekday[1], min_period, max_period,
                                 start_time_obj[1][1], end_time_obj[1][2]) >>
            ELSE <<>>

\* tuple comparison of two-element keys
key_le(a, b) == a[1] < b[1] \/ (a[1] = b[1] /\ a[2] <= b[2])

\* list.sort(key=...) is stable: q is a list of <<key, item>> pairs; an
\* element comes after every element with a smaller key and after the earlier
\* elements with an equal key
stable_sort(q) ==
    LET n == Len(q)
        before(j, i) == IF q[j][1] = q[i][1] THEN j < i ELSE key_le(q[j][1], q[i][1])
        rank == list([i \in 1..n |-> 1 + Cardinality({j \in 1..n : j # i /\ before(j, i)})])
    IN  list([r \in 1..n |-> q[CHOOSE i \in 1..n : rank[i] = r]])

\* key=lambda x: (x.weekday, x.start_period)
session_key(x) == <<x.weekday, x.start_period>>

\* qs[lo] \o ... \o qs[hi]
RECURSIVE concat_range(_, _, _)
concat_range(qs, lo, hi) ==
    IF lo > hi THEN <<>>
    ELSE IF lo = hi THEN qs[lo]
    ELSE LET mid == (lo + hi) \div 2
         IN  concat_range(qs, lo, mid) \o concat_range(qs, mid + 1, hi)

\* the lists of qs one after the other, as repeated extend() leaves them
concat(qs) == concat_range(qs, 1, Len(qs))

\* the comma-separated parts of a notation, trimmed
schedule_parts(schedule_str) ==
    LET parts == split(schedule_str, ",") IN
    list([i \in 1..Len(parts) |-> strip(parts[i])])

\* a slip: the list is returned in the order of the groups
sort_sessions_omitted(sessions) == sessions

\* sessions.sort(key=lambda x: (x.weekday, x.start_period))
sort_sessions(sessions) ==
    LET keyed == stable_sort(list([i \in 1..Len(sessions) |->
                                    <<session_key(sessions[i]), sessions[i]>>]))
    IN  list([i \in 1..Len(keyed) |-> keyed[i][2]])

\* A notation argument is a value [type |-> "str", chars |-> ...] or the null
\* value [type |-> "NoneType"]; the result is [raised |-> exception name or
\* "none", value |-> the returned list].
Str(chars) == [type |-> "str", chars |-> chars]
NoneValue == [type |-> "NoneType", chars |-> <<>>]

Returned(value) == [raised |-> "none", value |-> value]
Raised(exception) == [raised |-> exception, value |-> <<>>]

\* parse_schedule(schedule_str)
parse_schedule(schedule_str) ==
    IF schedule_str.type # "str"
    THEN Raised("AttributeError")   \* schedule_str.split on a value without split
    ELSE
      LET parts == schedule_parts(schedule_str.chars)
          sessions == concat(list([i \in 1..Len(parts) |-> parse_single_schedule(parts[i])]))
      IN  Returned(sort_sessions(sessions))

----------------------------------------------------------------------------
(* utils/course_schedule_parser.py and utils/course_import_processor.py:    *)
(* the date expander                                                        *)

\* one entry of class_dates (session_info, the display text of the session,
\* is left out)
Occurrence(current_date, session) ==
    [date |-> current_date, weekday |-> session.weekday,
     start_time |-> session.start_time, end_time |-> session.end_time,
     start_period |-> session.start_period, end_period |-> session.end_period]

\* the body of the while loop for one day: the inner loop over the sessions
day_class_dates(current_date, sessions, exclude_dates) ==
    LET meets(session) ==
            /\ weekday_of(current_date) = session.weekday
            /\ \A i \in 1..Len(exclude_dates) : exclude_dates[i] # current_date
        todays == SelectSeq(sessions, meets)
    IN  list([i \in 1..Len(todays) |-> Occurrence(current_date, todays[i])])

\* a slip: "while current_date < semester.end_date" leaves the last day out
loop_dates_without_last(start_date, end_date) ==
    [i \in 1..(end_date - start_date) |-> start_date + (i - 1)]

\* a slip: the loop runs one day past the end of the semester
loop_dates_one_more(start_date, end_date) ==
    [i \in 1..(end_date - start_date + 2) |-> start_date + (i - 1)]

\* the values current_date takes: start_date, then one day more each time,
\* while current_date <= end_date
loop_dates(start_date, end_date) ==
    [i \in 1..(end_date - start_date + 1) |-> start_date + (i - 1)]

\* the while loop: class_dates after the last day
class_dates_from(start_date, end_date, sessions, exclude_dates) ==
    LET dates == loop_dates(start_date, end_date)
    IN  concat(list([i \in 1..Len(dates) |->
                        day_class_dates(dates[i], sessions, exclude_dates)]))

\* get_class_dates(sessions, semester_year, semester_num, exclude_dates);
\* exclude_dates None and [] are both <<>>
get_class_dates(sessions, semester_year, semester_num, exclude_dates) ==
    LET semester == get_semester_info(semester_year, semester_num) IN
    IF semester = None THEN <<>>
    ELSE class_dates_from(semester[1].start_date, semester[1].end_date,
                          sessions, exclude_dates)

\* the locals of get_class_dates once it holds a Semester: the object that
\* get_semester_info returned, current_date and class_dates
Frame(semester, current_date, class_dates) ==
    [semester |-> semester, current_date |-> current_date, class_dates |-> class_dates]

\* a slip: the condition of the loop looks the end of the semester up in the
\* table each time it is evaluated
loop_end_date_of_table(f) ==
    LET semester == get_semester_info(f.semester.year, f.semester.semester) IN
    IF semester = None THEN f.semester.end_date ELSE semester[1].end_date

\* "semester.end_date" in the condition of the while loop: the end of the
\* Semester the call holds
loop_end_date(f) == f.semester.end_date

\* the locals after the iterations of the while loop for the days
\* current_date .. last_date
frame_after_days(f, last_date, sessions, exclude_dates) ==
    Frame(f.semester, last_date + 1,
          f.class_dates \o class_dates_from(f.current_date, last_date,
                                            sessions, exclude_dates))

\* CourseImportProcessor.get_course_dates(course_data, exclude_dates)
get_course_dates(course_data, exclude_dates) ==
    LET semester_info == get_semester_info(course_data.year, course_data.semester) IN
    IF semester_info = None THEN <<>>
    ELSE get_class_dates(course_data.schedule_sessions, course_data.year,
                         course_data.semester, exclude_dates)

----------------------------------------------------------------------------
(* utils/google_calendar_sync.py: the semesters read from the calendar are  *)
(* a dict {(year, semester): {'start': datetime, 'end': datetime}}, here    *)
(* the list of its items in dict order; 'start' or 'end' may be missing     *)

\* one item of the semesters dict; start and end are Optional
SemesterDates(key, start, end) == [key |-> key, start |-> start, end |-> end]

\* a slip: an item that has both dates is kept whatever their order
validate_semester_data_complete_only(semesters) ==
    SelectSeq(semesters, LAMBDA value : value.start # None /\ value.end # None)

\* validate_semester_data(semesters): the items that have both dates, the
\* start before the end
validate_semester_data(semesters) ==
    SelectSeq(semesters, LAMBDA value :
        /\ value.start # None
        /\ value.end # None
        /\ value.start[1] < value.end[1])

\* a slip: the whole batch is written in one step, under a lock
apply_pending_whole_batch(valid_semesters, applied) ==
    SubSeq(valid_semesters, applied + 1, Len(valid_semesters))

\* the items one iteration of the for loop writes: the next one. Nothing
\* holds the table between two iterations.
apply_pending(valid_semesters, applied) ==
    SubSeq(valid_semesters, applied + 1, applied + 1)

\* the table after update_semester_info(year, semester, dates['start'],
\* dates['end']) of every item of items, in order
semesters_applied(table, items) ==
    LET written == {items[i].key : i \in 1..Len(items)}
        last(k) == CHOOSE i \in 1..Len(items) :
                      /\ items[i].key = k
                      /\ \A j \in (i + 1)..Len(items) : items[j].key # k
    IN  [k \in DOMAIN table \cup written |->
            IF k \in written
            THEN Semester(k[1], k[2], items[last(k)].start[1], items[last(k)].end[1])
            ELSE table[k]]

----------------------------------------------------------------------------
(* intergrations/notion/processor.py: _generate_course_sessions for one     *)
(* course; a block is one entry of sessions_to_create                       *)

\* int(s) of a cell: the text is trimmed and must be decimal digits;
\* None stands for ValueError
int_parse(s) ==
    LET t == strip(s) IN
    IF t # <<>> /\ \A i \in 1..Len(t) : IsDigit(t[i]) THEN Some(int(t)) ELSE None

\* a slip: a combined cell is never taken apart
year_and_semester_as_given(row_data) == <<row_data.Year, row_data.Semester>>

\* year_str and sem_str after the combined "<year>-<semester>" cell is
\* taken apart; row_data holds the cells Year, Semester, YearSemester (the
\* combined column) and Schedule, '' when the column is missing
year_and_semester(row_data) ==
    LET year_str == row_data.Year
        sem_str == row_data.Semester
        combined_ys == IF sem_str # <<>> /\ contains(sem_str, "-") /\ year_str = <<>>
                       THEN sem_str ELSE row_data.YearSemester
    IN  IF /\ year_str = <<>>
           /\ (sem_str = <<>> \/ contains(sem_str, "-"))
           /\ combined_ys # <<>>
           /\ contains(combined_ys, "-")
        THEN LET parts == split(combined_ys, "-")
             IN  IF Len(parts) >= 2
                 THEN <<strip(parts[1]), strip(parts[2])>>
                 ELSE <<year_str, sem_str>>
        ELSE <<year_str, sem_str>>

\* key=lambda x: (x['date'], x['start_time'] or datetime.min.time())
class_date_key(x) == <<x.date, x.start_time>>

sort_class_dates(class_dates) ==
    LET keyed == stable_sort(list([i \in 1..Len(class_dates) |->
                                    <<class_date_key(class_dates[i]), class_dates[i]>>]))
    IN  list([i \in 1..Len(keyed) |-> keyed[i][2]])

\* a slip: the occurrences are not grouped, each one is a group of its own
groupby_date_each_alone(class_dates) ==
    list([i \in 1..Len(class_dates) |-> <<class_dates[i]>>])

\* itertools.groupby(class_dates, key=lambda x: x['date']): the runs of
\* consecutive entries with one date, in order
groupby_date(class_dates) ==
    LET n == Len(class_dates)
        starts == {i \in 1..n : i = 1 \/ class_dates[i].date # class_dates[i - 1].date}
        group_of == list([i \in 1..n |-> Cardinality({j \in starts : j <= i})])
        members(g) == {i \in 1..n : group_of[i] = g}
    IN  list([g \in 1..Cardinality(starts) |->
                SubSeq(class_dates,
                       CHOOSE i \in members(g) : \A j \in members(g) : i <= j,
                       CHOOSE i \in members(g) : \A j \in members(g) : i >= j)])

\* datetime.today(): the anchor of an empty class_dates, from which no block
\* is computed because the loop over the groups does not run
today == datetime(2026, 11, 4)

\* start_date = class_dates[0]['date'] if class_dates else datetime.today();
\* semester_info is in scope and is not used ("Use First Class Date as
\* anchor (not Semester Start)")
anchor_date(class_dates, semester_info) ==
    IF class_dates # <<>> THEN class_dates[1].date ELSE today

\* a slip: weeks counted from 0
week_number_from_zero(delta_days) == delta_days \div 7

\* current_week = (delta_days // 7) + 1
week_number(delta_days) == (delta_days \div 7) + 1

\* a slip: no block is skipped
exceeds_week_limit_never(current_week) == FALSE

\* if current_week > 18: continue
exceeds_week_limit(current_week) == current_week > 18

Block(date, start_time, end_time, week) ==
    [date |-> date, start_time |-> start_time, end_time |-> end_time, week |-> week]

\* the body of the groupby loop up to the week computation
merged_block(group_list, start_date) ==
    Block(group_list[1].date,
          Some(group_list[1].start_time),
          Some(group_list[Len(group_list)].end_time),
          Some(week_number(group_list[1].date - start_date)))

\* a slip: the blocks that are kept are numbered again, by their position
merge_class_dates_renumbered(class_dates, semester_info) ==
    LET sorted == sort_class_dates(class_dates)
        start_date == anchor_date(sorted, semester_info)
        groups == groupby_date(sorted)
        blocks == list([g \in 1..Len(groups) |-> merged_block(groups[g], start_date)])
        kept == SelectSeq(blocks, LAMBDA b : ~exceeds_week_limit(b.week[1]))
    IN  list([i \in 1..Len(kept) |-> [kept[i] EXCEPT !.week = Some(i)]])

\* sort, group by date, merge, number the weeks, skip the weeks past the limit
merge_class_dates(class_dates, semester_info) ==
    LET sorted == sort_class_dates(class_dates)
        start_date == anchor_date(sorted, semester_info)
        groups == groupby_date(sorted)
        blocks == list([g \in 1..Len(groups) |-> merged_block(groups[g], start_date)])
    IN  SelectSeq(blocks, LAMBDA b : ~exceeds_week_limit(b.week[1]))

\* smart mode: the blocks of the "if year_str and sem_str and schedule_str"
\* branch; a ValueError of int() is caught and leaves no block
smart_mode_sessions(row_data) ==
    LET year_str == year_and_semester(row_data)[1]
        sem_str == year_and_semester(row_data)[2]
        schedule_str == row_data.Schedule
    IN  IF year_str = <<>> \/ sem_str = <<>> \/ schedule_str = <<>> THEN <<>>
        ELSE IF int_parse(year_str) = None \/ int_parse(sem_str) = None THEN <<>>
        ELSE
          LET year == int_parse(year_str)[1]
              sem == int_parse(sem_str)[1]
              semester_info == get_semester_info(year, sem)
          IN  IF semester_info = None THEN <<>>
              ELSE
                LET parsed_schedule == parse_schedule(Str(schedule_str)).value IN
                IF parsed_schedule = <<>> THEN <<>>
                ELSE merge_class_dates(get_class_dates(parsed_schedule, year, sem, <<>>),
                                       semester_info[1])

\* A date text is absent (None) or present: [ok |-> TRUE, date |-> d] when it
\* reads as %Y-%m-%d, [ok |-> FALSE] when strptime raises ValueError.
DateText(d) == Some([ok |-> TRUE, date |-> d])
BadDateText == Some([ok |-> FALSE, date |-> 0])

\* <<global_start, global_end>>: both stay None unless both texts are given;
\* a ValueError on the start leaves both None, on the end leaves the end None
global_dates(semester_start, semester_end) ==
    IF semester_start = None \/ semester_end = None THEN <<None, None>>
    ELSE IF ~semester_start[1].ok THEN <<None, None>>
    ELSE IF ~semester_end[1].ok THEN <<Some(semester_start[1].date), None>>
    ELSE <<Some(semester_start[1].date), Some(semester_end[1].date)>>

\* int(x / 18) for semester_weeks = days / 7: truncation towards zero
weeks_div_18(days) == IF days >= 0 THEN days \div 126 ELSE -((-days) \div 126)

\* a slip: "if session_date > global_end" is left out
legacy_sessions_without_clamp(global_start, global_end) ==
    LET weeks_per_session ==
            IF weeks_div_18(global_end - global_start) > 1
            THEN weeks_div_18(global_end - global_start) ELSE 1
    IN  list([i \in 1..18 |->
                Block(global_start + 7 * (i - 1) * weeks_per_session, None, None, None)])

\* legacy mode: 18 blocks without time of day and without a 'week' entry
legacy_sessions(global_start, global_end) ==
    LET weeks_per_session ==
            IF weeks_div_18(global_end - global_start) > 1
            THEN weeks_div_18(global_end - global_start) ELSE 1
        session_date(i) == global_start + 7 * (i - 1) * weeks_per_session
    IN  list([i \in 1..18 |->
                Block(IF session_date(i) > global_end THEN global_end ELSE session_date(i),
                      None, None, None)])

\* a slip: "not sessions_to_create" is left out of the condition of the
\* fallback
course_sessions_with_legacy_added(row_data, semester_start, semester_end) ==
    LET global_start == global_dates(semester_start, semester_end)[1]
        global_end == global_dates(semester_start, semester_end)[2]
        smart == smart_mode_sessions(row_data)
    IN  IF global_start # None /\ global_end # None
        THEN smart \o legacy_sessions(global_start[1], global_end[1])
        ELSE smart

\* sessions_to_create of one course
course_sessions(row_data, semester_start, semester_end) ==
    LET global_start == global_dates(semester_start, semester_end)[1]
        global_end == global_dates(semester_start, semester_end)[2]
        smart == smart_mode_sessions(row_data)
    IN  IF smart = <<>> /\ global_start # None /\ global_end # None
        THEN legacy_sessions(global_start[1], global_end[1])
        ELSE smart

----------------------------------------------------------------------------
(* utils/course_import_processor.py: parse_course_row. A row is a function  *)
(* from column names to cells; a cell is a string or a number. The column   *)
(* names written in ideographs are spelled by their readings.               *)

Number(n) == [type |-> "int", chars |-> str(n)]

\* row.get(key)
row_get(row, key) == IF key \in DOMAIN row THEN row[key] ELSE NoneValue

\* bool(cell)
truthy(cell) ==
    CASE cell.type = "str" -> cell.chars # <<>>
      [] cell.type = "int" -> int(cell.chars) # 0
      [] OTHER -> FALSE

\* a or b or c
first_truthy(a, b, c) == IF truthy(a) THEN a ELSE IF truthy(b) THEN b ELSE c

\* int(cell): None stands for ValueError
int_of(cell) == IF cell.type = "int" THEN Some(int(cell.chars)) ELSE int_parse(cell.chars)

\* s.strip('/')
RECURSIVE strip_slash(_)
strip_slash(s) ==
    IF s = <<>> THEN s
    ELSE IF s[1] = "/" THEN strip_slash(Tail(s))
    ELSE IF s[Len(s)] = "/" THEN strip_slash(SubSeq(s, 1, Len(s) - 1))
    ELSE s

\* <<hours, credits>> after the inner try of the credits cell, whose
\* ValueError and IndexError are passed over
hours_and_credits(credits_chars) ==
    LET parts == split(credits_chars, "/")
        hours == int_parse(parts[1])
    IN  IF hours = None THEN <<None, None>>
        ELSE IF Len(parts) > 1 THEN <<hours, int_parse(parts[2])>>
        ELSE <<hours, None>>

\* the body of the outer try of parse_course_row: a record, None, or the
\* exception that reaches the outer handler (the display text of the record
\* is left out: it is formatted from schedule_sessions and read nowhere)
course_row(row) ==
    LET year == first_truthy(row_get(row, "xuenian"), row_get(row, "Year"), row_get(row, "year"))
        semester == first_truthy(row_get(row, "xueqi"), row_get(row, "Semester"),
                                 row_get(row, "semester"))
        code == first_truthy(row_get(row, "kechengdaima"), row_get(row, "Code"),
                             row_get(row, "code"))
        name == first_truthy(row_get(row, "kechengmingcheng"), row_get(row, "Name"),
                             row_get(row, "name"))
        instructor == first_truthy(row_get(row, "jiaoshi"), row_get(row, "Instructor"),
                                   row_get(row, "instructor"))
        schedule_str == first_truthy(row_get(row, "shangkeshijian"), row_get(row, "Schedule"),
                                     row_get(row, "schedule"))
        credits_str == first_truthy(row_get(row, "shangkeshishu/xuefen"),
                                    row_get(row, "Credits"), row_get(row, "credits"))
    IN  IF ~(truthy(year) /\ truthy(semester) /\ truthy(name) /\ truthy(schedule_str))
        THEN Returned(None)
        ELSE IF int_of(year) = None \/ int_of(semester) = None
        THEN Returned(None)
        ELSE LET schedule_sessions == parse_schedule(schedule_str) IN
        IF schedule_sessions.raised # "none"
        THEN schedule_sessions
        ELSE IF schedule_sessions.value = <<>>
        THEN Returned(None)
        ELSE IF truthy(credits_str) /\ credits_str.type # "str"
        THEN Raised("AttributeError")   \* credits_str.split on a number
        ELSE IF name.type # "str" \/ (truthy(instructor) /\ instructor.type # "str")
        THEN Raised("AttributeError")   \* strip on a number
        ELSE LET hc == IF truthy(credits_str) THEN hours_and_credits(credits_str.chars)
                       ELSE <<None, None>>
             IN  Returned(Some([year |-> int_of(year)[1],
                                semester |-> int_of(semester)[1],
                                code |-> code,
                                name |-> strip_slash(name.chars),
                                instructor |-> IF truthy(instructor)
                                               THEN strip_slash(instructor.chars) ELSE <<>>,
                                schedule_str |-> schedule_str,
                                schedule_sessions |-> schedule_sessions.value,
                                hours |-> hc[1],
                                credits |-> hc[2]]))

\* parse_course_row without its outer handler
parse_course_row_unguarded(row) == course_row(row)

\* parse_course_row(row): except Exception returns None
parse_course_row(row) ==
    IF course_row(row).raised # "none" THEN Returned(None) ELSE course_row(row)

----------------------------------------------------------------------------
(* intergrations/notion/processor.py: import_csv_to_database. A row of the  *)
(* CSV holds the cells Name, Year, Semester, YearSemester and Schedule, ''  *)
(* when the column is missing. The client is the Notion collaborator: its   *)
(* create_page_in_database returns a page ("page"), returns nothing         *)
(* ("nothing") or raises ("raises").                                        *)

\* any(str(v).strip() for v in row.values() if v)
non_blank(row) == \E k \in DOMAIN row : strip(row[k]) # <<>>

\* rows = [row for row in csv_reader if any(...)]
non_blank_rows(rows) == SelectSeq(rows, LAMBDA row : non_blank(row))

day_map_zh ==
    [yi |-> "Mon", er |-> "Tue", san |-> "Wed", si |-> "Thu", wu |-> "Fri",
     liu |-> "Sat", ri |-> "Sun"]

\* day_map_zh.get(day_char)
day_map_zh_get(day_char) ==
    IF day_char \in DOMAIN day_map_zh THEN Some(day_map_zh[day_char]) ELSE None

\* _build_properties_from_csv_row(row): the cleaned value of every cell that
\* is not empty, under its property name; the Schedule cell is skipped and
\* gives the Day property when its first character is a weekday ideograph
build_properties_from_csv_row(row) ==
    LET clean_value(key) == strip(row[key])
        kept == {key \in DOMAIN row \ {"Schedule"} : clean_value(key) # <<>>}
        mapped_key(key) == IF key = "Name" THEN "Course Name" ELSE key
        mapped_day == IF clean_value("Schedule") # <<>>
                      THEN day_map_zh_get(clean_value("Schedule")[1]) ELSE None
    IN  [p \in {mapped_key(key) : key \in kept} \cup (IF mapped_day # None THEN {"Day"} ELSE {}) |->
            IF p = "Day" THEN mapped_day[1]
            ELSE IF p = "Course Name" THEN clean_value("Name")
            ELSE clean_value(p)]

\* the counters and lists of import_csv_to_database, the create-page calls
\* made for the rows (pages: what was sent and what the client did), and the
\* locals year and sem of _generate_course_sessions (None while unbound)
Batch(rows, extra_params) ==
    [rows |-> rows, extra_params |-> extra_params, row_num |-> 0,
     imported |-> 0, failed |-> 0, errors |-> <<>>, pages |-> <<>>,
     created_courses |-> <<>>, generated |-> 0, year |-> None, sem |-> None,
     requests |-> <<>>, sessions_created |-> 0]

\* a slip: a row whose page was created is never counted as failed, a row
\* without a schedule is
import_row_failing_without_schedule(b, outcome) ==
    LET row_num == b.row_num + 1
        row == b.rows[row_num]
        sent == [b EXCEPT !.row_num = row_num,
                          !.pages = Append(@, [properties |-> build_properties_from_csv_row(row),
                                               outcome |-> outcome])]
    IN  IF outcome = "page" /\ row.Schedule # <<>>
        THEN [sent EXCEPT !.imported = @ + 1]
        ELSE [sent EXCEPT !.failed = @ + 1, !.errors = Append(@, <<row_num, "failed">>)]

\* one pass of the loop over the rows, with what create_page_in_database did
import_row(b, outcome) ==
    LET row_num == b.row_num + 1
        row == b.rows[row_num]
        sent == [b EXCEPT !.row_num = row_num,
                          !.pages = Append(@, [properties |-> build_properties_from_csv_row(row),
                                               outcome |-> outcome])]
        for_sessions == \/ b.extra_params.semester_start # None
                        \/ b.extra_params.course_sessions_db_id # None
    IN  CASE outcome = "page" ->
               [sent EXCEPT !.imported = @ + 1,
                            !.created_courses =
                                IF for_sessions
                                THEN Append(@, [id |-> row_num, name |-> row.Name,
                                                row_data |-> row])
                                ELSE @]
          [] outcome = "nothing" ->
               [sent EXCEPT !.failed = @ + 1, !.errors = Append(@, <<row_num, "failed">>)]
          [] outcome = "raises" ->
               [sent EXCEPT !.failed = @ + 1, !.errors = Append(@, <<row_num, "error">>)]

\* a slip: year and sem keep the values of the first course that bound them
locals_after_first_binding(year, sem, row_data) ==
    IF year # None /\ sem # None THEN <<year, sem>>
    ELSE <<int_parse(year_and_semester(row_data)[1]), int_parse(year_and_semester(row_data)[2])>>

\* year and sem after the smart-mode attempt on one course: int(year_str) and
\* int(sem_str) are assigned in turn, a ValueError stops the assignments
locals_after(year, sem, row_data) ==
    LET year_str == year_and_semester(row_data)[1]
        sem_str == year_and_semester(row_data)[2]
    IN  IF year_str = <<>> \/ sem_str = <<>> \/ row_data.Schedule = <<>> THEN <<year, sem>>
        ELSE IF int_parse(year_str) = None THEN <<year, sem>>
        ELSE IF int_parse(sem_str) = None THEN <<int_parse(year_str), sem>>
        ELSE <<int_parse(year_str), int_parse(sem_str)>>

\* sem_label: f"{year}-{sem}" if year and sem, else "Unknown" (None)
sem_label(year, sem) ==
    IF year # None /\ sem # None /\ year # <<0>> /\ sem # <<0>>
    THEN Some(<<year[1], sem[1]>>) ELSE None

\* the create-session requests of one course: a block reaches the client
\* only inside "if sess.get('start_time')"
session_requests(course, sessions_to_create, year, sem) ==
    LET timed == SelectSeq(sessions_to_create,
                           LAMBDA sess : sess.start_time # None)
    IN  list([i \in 1..Len(timed) |->
                [course_id |-> course.id, date |-> timed[i].date,
                 start |-> timed[i].start_time, end |-> timed[i].end_time,
                 week |-> timed[i].week, semester |-> sem_label(year, sem)]])

\* the create-session requests of the next course of the loop of
\* _generate_course_sessions
course_requests(b) ==
    LET course == b.created_courses[b.generated + 1]
        sessions_to_create == course_sessions(course.row_data, b.extra_params.semester_start,
                                              b.extra_params.semester_end)
        bound == locals_after(b.year, b.sem, course.row_data)
    IN  session_requests(course, sessions_to_create, bound[1], bound[2])

\* one pass of the loop of _generate_course_sessions over the created
\* courses: sent are its create-session requests, outcome is what
\* create_page_in_database did for them
generate_course(b, sent, outcome) ==
    LET bound == locals_after(b.year, b.sem, b.created_courses[b.generated + 1].row_data)
    IN  [b EXCEPT !.generated = @ + 1, !.year = bound[1], !.sem = bound[2],
                  !.requests = @ \o sent,
                  !.sessions_created = IF outcome = "page" THEN @ + Len(sent) ELSE @]

\* the result for a CSV without rows
empty_result == [success |-> FALSE, imported |-> 0, failed |-> 0]

\* a slip: the errors are returned as they are
every_error(errors) == errors

\* errors[:10]
first_ten(errors) == SubSeq(errors, 1, IF Len(errors) < 10 THEN Len(errors) ELSE 10)

\* the result of a batch that ran to its end
import_result(b) ==
    [success |-> b.imported > 0, imported |-> b.imported, failed |-> b.failed,
     sessions_created |-> b.sessions_created, errors |-> first_ten(b.errors)]

----------------------------------------------------------------------------
(* Inputs of the notation parser *)

\* longest notation written character by character
MaxLen == 4

\* most pieces a composed notation is made of
MaxPieces == 3

\* largest period number written after a weekday token on its own
MaxPeriod == 15

Alphabet == {"san", "er", "x", "1", "9", "0", "/", ",", " "}

\* the sequences over S of length 0 to n
SeqsUpTo(S, n) == UNION {[1..k -> S] : k \in 0..n}

\* a token is a pair <<weekday_str, period number>>; the empty piece writes nothing
SampleTokens ==
    { <<<<"san">>, 9>>, <<<<"san">>, 2>>, <<<<"yi">>, 11>>, <<<<"liu">>, 14>>,
      <<<<"x">>, 5>>, <<<<"er">>, 15>>, <<<<"san">>, 0>> }

EmptyPiece == <<<<>>, 0>>

IsToken(piece) == piece[1] # <<>>

Pieces == SampleTokens \cup {EmptyPiece}

\* between two pieces: a slash, a comma, or nothing (concatenated tokens)
Separators == {<<"/">>, <<",">>, <<>>}

write_piece(piece) == IF IsToken(piece) THEN piece[1] \o str(piece[2]) ELSE <<>>

\* pieces[1] seps[1] pieces[2] seps[2] ... pieces[n]
RECURSIVE write_notation(_, _)
write_notation(pieces, seps) ==
    IF Len(pieces) = 0 THEN <<>>
    ELSE IF Len(pieces) = 1 THEN write_piece(pieces[1])
    ELSE write_notation(SubSeq(pieces, 1, Len(pieces) - 1), SubSeq(seps, 1, Len(seps) - 1))
            \o seps[Len(seps)] \o write_piece(pieces[Len(pieces)])

ParserCall(schedule_str, pieces, seps) ==
    [op |-> "parse_schedule", schedule_str |-> schedule_str, pieces |-> pieces, seps |-> seps]

\* the absent notation
NullCall == ParserCall(NoneValue, <<>>, <<>>)

----------------------------------------------------------------------------
(* The notation parser applied to one notation *)

\* a notation given character by character
RawCall ==
    \E k \in 1..MaxLen : \E chars \in [1..k -> Alphabet] :
        call = ParserCall(Str(list(chars)), <<>>, <<>>)

\* a notation composed of one to MaxPieces pieces
ComposedCall ==
    \E n \in 1..MaxPieces :
        \E pieces \in [1..n -> Pieces], seps \in [1..(n - 1) -> Separators] :
            call = ParserCall(Str(write_notation(list(pieces), list(seps))),
                              list(pieces), list(seps))

\* one weekday token of the table followed by one period number
SingleTokenCall ==
    \E e \in WEEKDAY_MAP, period \in 0..MaxPeriod :
        call = ParserCall(Str(write_piece(<<e[1], period>>)), <<  <<e[1], period>>  >>, <<>>)

InitParser ==
    /\ SEMESTER_DATABASE = SeedDatabase
    /\ pc = "ready"
    /\ RawCall \/ ComposedCall \/ SingleTokenCall \/ call = NullCall
    /\ ret = None
    /\ writer = Idle
    /\ batch = NoBatch
    /\ frame = NoFrame

ParseSchedule ==
    /\ pc = "ready"
    /\ call.op = "parse_schedule"
    /\ ret' = parse_schedule(call.schedule_str)
    /\ pc' = "done"
    /\ UNCHANGED <<SEMESTER_DATABASE, call, writer, batch, frame>>

NextParser == ParseSchedule

SpecParser == InitParser /\ [][NextParser]_vars

Parsed == pc = "done" /\ call.op = "parse_schedule"

----------------------------------------------------------------------------
(* Inputs of the date expander and of the session generator *)

\* longest list of sessions handed to the expander
MaxSessions == 2

\* a session as the parser builds it
built_session(weekday, start_period, end_period) ==
    ClassSession(weekday, start_period, end_period,
                 CLASS_PERIODS[start_period][1], CLASS_PERIODS[end_period][2])

\* Wednesday 9..11, Wednesday 2, Saturday 4
SampleSessions == {built_session(2, 9, 11), built_session(2, 2, 2), built_session(5, 4, 4)}

SessionLists == SeqsUpTo(SampleSessions, MaxSessions)

\* two seeded semesters and one that is not seeded
SampleKeys == {<<114, 1>>, <<114, 2>>, <<116, 1>>}

\* no date; the first Wednesday of (114, 1); a Wednesday of (114, 1) and the
\* last day, a Saturday, of (114, 1)
SampleExcludes ==
    { <<>>, <<datetime(2025, 9, 3)>>, <<datetime(2025, 9, 10), datetime(2026, 1, 31)>> }

\* keys update_semester_info is called with, and the windows written: a
\* Monday to the Wednesday of the third week after it, and a window whose
\* start is after its end
UpdateKeys == {<<114, 1>>, <<116, 1>>}

UpdateWindows ==
    { <<datetime(2025, 9, 8), datetime(2025, 9, 24)>>,
      <<datetime(2025, 9, 20), datetime(2025, 9, 1)>> }

ExpanderCalls ==
    { [op |-> "get_class_dates", sessions |-> sessions, semester_year |-> key[1],
       semester_num |-> key[2], exclude_dates |-> exclude_dates] :
        sessions \in SessionLists, key \in SampleKeys, exclude_dates \in SampleExcludes }

CourseDatesCalls ==
    { [op |-> "get_course_dates",
       course_data |-> [year |-> key[1], semester |-> key[2], schedule_sessions |-> sessions],
       exclude_dates |-> exclude_dates] :
        sessions \in SessionLists, key \in SampleKeys, exclude_dates \in SampleExcludes }

\* cells of a course row: "114", "116", a missing cell, a cell that is no number
SampleYears == {<<"1", "1", "4">>, <<"1", "1", "6">>, <<>>, <<"x">>}

\* "1", "2", the combined "114-1", a missing cell
SampleSemesters == {<<"1">>, <<"2">>, <<"1", "1", "4", "-", "1">>, <<>>}

\* the combined column: missing, or "114-2"
SampleYearSemesters == {<<>>, <<"1", "1", "4", "-", "2">>}

\* "san9/san10/san11", "san9,san10,san11", "er2,liu4", "liu4,er2",
\* "san2/san9,san3", "x5", ""
SampleSchedules ==
    { <<"san", "9", "/", "san", "1", "0", "/", "san", "1", "1">>,
      <<"san", "9", ",", "san", "1", "0", ",", "san", "1", "1">>,
      <<"er", "2", ",", "liu", "4">>,
      <<"liu", "4", ",", "er", "2">>,
      <<"san", "2", "/", "san", "9", ",", "san", "3">>,
      <<"x", "5">>,
      <<>> }

\* semester_start and semester_end of the import: not given; 152 days (21
\* weeks); an end that does not read as a date; 60 days (8 weeks); 302 days
\* (43 weeks); an end before the start
SampleGlobalDates ==
    { <<None, None>>,
      <<DateText(datetime(2025, 9, 1)), DateText(datetime(2026, 1, 31))>>,
      <<DateText(datetime(2025, 9, 1)), BadDateText>>,
      <<DateText(datetime(2025, 9, 1)), DateText(datetime(2025, 10, 31))>>,
      <<DateText(datetime(2025, 9, 1)), DateText(datetime(2026, 6, 30))>>,
      <<DateText(datetime(2026, 1, 31)), DateText(datetime(2025, 9, 1))>> }

GeneratorCalls ==
    { [op |-> "generate_course_sessions",
       row_data |-> [Year |-> y, Semester |-> sem, YearSemester |-> ys, Schedule |-> sch],
       semester_start |-> g[1], semester_end |-> g[2]] :
        y \in SampleYears, sem \in SampleSemesters, ys \in SampleYearSemesters,
        sch \in SampleSchedules, g \in SampleGlobalDates }

----------------------------------------------------------------------------
(* The semester table, the expander and the generator: the table is seeded, *)
(* update_semester_info overwrites or adds entries (it takes any window, a  *)
(* start after the end included), and one call reads the table              *)

Init ==
    /\ SEMESTER_DATABASE = SeedDatabase
    /\ pc = "ready"
    /\ call \in ExpanderCalls \cup CourseDatesCalls \cup GeneratorCalls
    /\ ret = None
    /\ writer = Idle
    /\ batch = NoBatch
    /\ frame = NoFrame

UpdateSemesterInfo ==
    /\ pc = "ready"
    /\ \E key \in UpdateKeys, window \in UpdateWindows :
          SEMESTER_DATABASE' = update_semester_info(key[1], key[2], window[1], window[2])
    /\ UNCHANGED <<pc, call, ret, writer, batch, frame>>

\* a slip: the exclusion list is emptied while it is looked through
GetClassDates_consuming_exclude_dates ==
    /\ pc = "ready"
    /\ call.op = "get_class_dates"
    /\ ret' = Returned(get_class_dates(call.sessions, call.semester_year,
                                       call.semester_num, call.exclude_dates))
    /\ pc' = "done"
    /\ call' = [call EXCEPT !.exclude_dates = <<>>]
    /\ UNCHANGED <<SEMESTER_DATABASE, writer, batch, frame>>

GetClassDates ==
    /\ pc = "ready"
    /\ call.op = "get_class_dates"
    /\ ret' = Returned(get_class_dates(call.sessions, call.semester_year,
                                       call.semester_num, call.exclude_dates))
    /\ pc' = "done"
    /\ UNCHANGED <<SEMESTER_DATABASE, call, writer, batch, frame>>

GetCourseDates ==
    /\ pc = "ready"
    /\ call.op = "get_course_dates"
    /\ ret' = Returned(get_course_dates(call.course_data, call.exclude_dates))
    /\ pc' = "done"
    /\ UNCHANGED <<SEMESTER_DATABASE, call, writer, batch, frame>>

GenerateCourseSessions ==
    /\ pc = "ready"
    /\ call.op = "generate_course_sessions"
    /\ ret' = Returned(course_sessions(call.row_data, call.semester_start, call.semester_end))
    /\ pc' = "done"
    /\ UNCHANGED <<SEMESTER_DATABASE, call, writer, batch, frame>>

Next ==
    \/ UpdateSemesterInfo
    \/ GetClassDates
    \/ GetCourseDates
    \/ GenerateCourseSessions

Spec == Init /\ [][Next]_vars

----------------------------------------------------------------------------
(* The semester table under a writer and a reader that run side by side:    *)
(* the writer calls update_semester_info or applies a batch read from the   *)
(* calendar, one item at a time; the reader looks the table up at any time  *)

\* most items of one batch
MaxBatch == 2

SyncKeys == {<<114, 1>>, <<114, 2>>, <<116, 1>>}

\* 2025-09-08 to 2026-01-16; 2025-09-15 to 2026-01-23
SyncWindows ==
    { <<datetime(2025, 9, 8), datetime(2026, 1, 16)>>,
      <<datetime(2025, 9, 15), datetime(2026, 1, 23)>> }

\* the items a batch is made of: the first window for each key, the second
\* for (116, 1), a start after the end and a missing end for (114, 1)
SyncItems ==
    { SemesterDates(<<114, 1>>, Some(datetime(2025, 9, 8)), Some(datetime(2026, 1, 16))),
      SemesterDates(<<114, 2>>, Some(datetime(2025, 9, 8)), Some(datetime(2026, 1, 16))),
      SemesterDates(<<116, 1>>, Some(datetime(2025, 9, 8)), Some(datetime(2026, 1, 16))),
      SemesterDates(<<116, 1>>, Some(datetime(2025, 9, 15)), Some(datetime(2026, 1, 23))),
      SemesterDates(<<114, 1>>, Some(datetime(2025, 9, 20)), Some(datetime(2025, 9, 1))),
      SemesterDates(<<114, 1>>, Some(datetime(2025, 9, 8)), None) }

\* the keys get_class_dates is called on while the table is written: one
\* that is seeded and one that is not
ExpandedKeys == {<<114, 1>>, <<116, 1>>}

\* the iterations of the while loop of get_class_dates that make one step
DaysPerStep == 28

SyncReaderCalls ==
    { [op |-> "get_semester_info", year |-> key[1], semester |-> key[2]] : key \in SyncKeys }
      \cup { [op |-> "get_all_semesters"] }
      \cup { [op |-> "get_class_dates", sessions |-> <<built_session(2, 9, 11)>>,
              semester_year |-> key[1], semester_num |-> key[2],
              exclude_dates |-> <<>>] : key \in ExpandedKeys }

\* the writer is not in the middle of a batch
WriterFree == writer.applied = Len(writer.semesters)

InitSync ==
    /\ SEMESTER_DATABASE = SeedDatabase
    /\ pc = "ready"
    /\ call \in SyncReaderCalls
    /\ ret = None
    /\ writer = Idle
    /\ batch = NoBatch
    /\ frame = NoFrame

\* update_semester_info called on its own
CallUpdateSemesterInfo ==
    /\ WriterFree
    /\ \E key \in SyncKeys, w \in SyncWindows :
          /\ SEMESTER_DATABASE' = update_semester_info(key[1], key[2], w[1], w[2])
          /\ writer' = [op |-> "update_semester_info",
                        given |-> <<SemesterDates(key, Some(w[1]), Some(w[2]))>>,
                        semesters |-> <<SemesterDates(key, Some(w[1]), Some(w[2]))>>,
                        applied |-> 1]
    /\ UNCHANGED <<pc, call, ret, batch, frame>>

\* apply_semesters_to_config(semesters) up to the for loop
BeginApplySemesters ==
    /\ WriterFree
    /\ \E n \in 1..MaxBatch : \E semesters \in [1..n -> SyncItems] :
          /\ \A i, j \in 1..n : i # j => semesters[i].key # semesters[j].key
          /\ writer' = [op |-> "apply_semesters_to_config",
                        given |-> list(semesters),
                        semesters |-> validate_semester_data(list(semesters)),
                        applied |-> 0]
    /\ UNCHANGED <<SEMESTER_DATABASE, pc, call, ret, batch, frame>>

\* one iteration of the for loop of apply_semesters_to_config
ApplyNextSemester ==
    /\ writer.op = "apply_semesters_to_config"
    /\ writer.applied < Len(writer.semesters)
    /\ LET pending == apply_pending(writer.semesters, writer.applied) IN
          /\ SEMESTER_DATABASE' = semesters_applied(SEMESTER_DATABASE, pending)
          /\ writer' = [writer EXCEPT !.applied = @ + Len(pending)]
    /\ UNCHANGED <<pc, call, ret, batch, frame>>

GetSemesterInfo ==
    /\ pc = "ready"
    /\ call.op = "get_semester_info"
    /\ ret' = Returned(get_semester_info(call.year, call.semester))
    /\ pc' = "done"
    /\ UNCHANGED <<SEMESTER_DATABASE, call, writer, batch, frame>>

GetAllSemesters ==
    /\ pc = "ready"
    /\ call.op = "get_all_semesters"
    /\ ret' = Returned(get_all_semesters)
    /\ pc' = "done"
    /\ UNCHANGED <<SEMESTER_DATABASE, call, writer, batch, frame>>

\* get_class_dates up to the while loop: the one lookup of the semester
BeginGetClassDates ==
    /\ pc = "ready"
    /\ call.op = "get_class_dates"
    /\ LET semester == get_semester_info(call.semester_year, call.semester_num) IN
          IF semester = None
          THEN /\ ret' = Returned(<<>>)
               /\ pc' = "done"
               /\ UNCHANGED frame
          ELSE /\ frame' = Frame(semester[1], semester[1].start_date, <<>>)
               /\ pc' = "expanding"
               /\ UNCHANGED ret
    /\ UNCHANGED <<SEMESTER_DATABASE, call, writer, batch>>

\* "while current_date <= semester.end_date"
LoopRuns == frame.current_date <= loop_end_date(frame)

\* the next iterations of the while loop, DaysPerStep of them or as many as
\* are left
ExpandDays ==
    /\ pc = "expanding"
    /\ LoopRuns
    /\ \E end_date \in {loop_end_date(frame)} :
          LET by_step == frame.current_date + DaysPerStep - 1
              last_date == IF by_step < end_date THEN by_step ELSE end_date
          IN  frame' = frame_after_days(frame, last_date, call.sessions,
                                        call.exclude_dates)
    /\ UNCHANGED <<SEMESTER_DATABASE, pc, call, ret, writer, batch>>

\* "return class_dates"
ReturnClassDates ==
    /\ pc = "expanding"
    /\ ~LoopRuns
    /\ ret' = Returned(frame.class_dates)
    /\ pc' = "done"
    /\ frame' = NoFrame
    /\ UNCHANGED <<SEMESTER_DATABASE, call, writer, batch>>

\* the reader goes on to its next call
NextReaderCall ==
    /\ pc = "done"
    /\ pc' = "ready"
    /\ call' \in SyncReaderCalls
    /\ ret' = None
    /\ UNCHANGED <<SEMESTER_DATABASE, writer, batch, frame>>

NextSync ==
    \/ CallUpdateSemesterInfo
    \/ BeginApplySemesters
    \/ ApplyNextSemester
    \/ GetSemesterInfo
    \/ GetAllSemesters
    \/ BeginGetClassDates
    \/ ExpandDays
    \/ ReturnClassDates
    \/ NextReaderCall

SpecSync == InitSync /\ [][NextSync]_vars

----------------------------------------------------------------------------
(* The row interpreter and the batch import: one call of parse_course_row,  *)
(* or one call of import_csv_to_database that takes its rows one by one,    *)
(* then generates the sessions of the courses it created, one course at a   *)
(* time, and returns                                                        *)

\* most rows of one CSV
MaxRows == 2

EmptyRow == [key \in {} |-> NoneValue]

\* the year columns of a row: none; "114" under each alias; "x"; an empty
\* cell before a filled one; the number 114
SampleYearColumns ==
    { EmptyRow,
      "xuenian" :> Str(<<"1", "1", "4">>),
      "Year" :> Str(<<"1", "1", "4">>),
      "year" :> Str(<<"x">>),
      ("xuenian" :> Str(<<>>)) @@ ("year" :> Str(<<"1", "1", "4">>)),
      "Year" :> Number(114) }

\* the semester columns: none; "1"; the combined "114-1"; "2"
SampleSemesterColumns ==
    { EmptyRow,
      "xueqi" :> Str(<<"1">>),
      "Semester" :> Str(<<"1", "1", "4", "-", "1">>),
      "semester" :> Str(<<"2">>) }

\* the name columns: none; "/ab"; an empty cell; a number
SampleNameColumns ==
    { EmptyRow,
      "kechengmingcheng" :> Str(<<"/", "a", "b">>),
      "Name" :> Str(<<>>),
      "name" :> Number(5) }

\* the schedule columns: none; "san9/san10"; "er2,liu4"; "x5"; a number
SampleScheduleColumns ==
    { EmptyRow,
      "shangkeshijian" :> Str(<<"san", "9", "/", "san", "1", "0">>),
      "Schedule" :> Str(<<"er", "2", ",", "liu", "4">>),
      "schedule" :> Str(<<"x", "5">>),
      "Schedule" :> Number(5) }

\* the credits columns: none; "3/3"; "3"; "x/3"; a number
SampleCreditsColumns ==
    { EmptyRow,
      "shangkeshishu/xuefen" :> Str(<<"3", "/", "3">>),
      "Credits" :> Str(<<"3">>),
      "credits" :> Str(<<"x", "/", "3">>),
      "Credits" :> Number(3) }

\* the instructor columns: none; "/Yu"
SampleInstructorColumns ==
    { EmptyRow, "jiaoshi" :> Str(<<"/", "Y", "u">>) }

ImportRowData(name, year, semester, year_semester, schedule) ==
    [Name |-> name, Year |-> year, Semester |-> semester,
     YearSemester |-> year_semester, Schedule |-> schedule]

\* rows of a CSV: 114 / 1 / "san9,san10,san11"; the same with the combined
\* "114-1" in the Semester column; the same with "114-1-2" there; a row
\* without a schedule; a row of an unregistered semester; a blank row
SampleImportRows ==
    { ImportRowData(<<"a">>, <<"1", "1", "4">>, <<"1">>, <<>>,
                    <<"san", "9", ",", "san", "1", "0", ",", "san", "1", "1">>),
      ImportRowData(<<"b">>, <<>>, <<"1", "1", "4", "-", "1">>, <<>>,
                    <<"san", "9", ",", "san", "1", "0", ",", "san", "1", "1">>),
      ImportRowData(<<"e">>, <<>>, <<"1", "1", "4", "-", "1", "-", "2">>, <<>>,
                    <<"san", "9", ",", "san", "1", "0", ",", "san", "1", "1">>),
      ImportRowData(<<"c">>, <<"1", "1", "4">>, <<"1">>, <<>>, <<>>),
      ImportRowData(<<"d">>, <<"1", "1", "6">>, <<"1">>, <<>>, <<"er", "2">>),
      ImportRowData(<<>>, <<>>, <<" ">>, <<>>, <<>>) }

\* extra_params: nothing; the sessions database alone; the sessions database
\* and the global dates; the global dates alone
SampleExtraParams ==
    { [semester_start |-> None, semester_end |-> None, course_sessions_db_id |-> None],
      [semester_start |-> None, semester_end |-> None,
       course_sessions_db_id |-> Some("SESSION_DB")],
      [semester_start |-> DateText(datetime(2025, 9, 1)),
       semester_end |-> DateText(datetime(2026, 1, 31)),
       course_sessions_db_id |-> Some("SESSION_DB")],
      [semester_start |-> DateText(datetime(2025, 9, 1)),
       semester_end |-> DateText(datetime(2026, 1, 31)),
       course_sessions_db_id |-> None] }

\* what create_page_in_database does on one request: it returns the page,
\* it returns None, it raises
ClientOutcomes == {"page", "nothing", "raises"}

\* rows of a CSV that can give more than ten errors
LongCsvRows == 12

\* a CSV of LongCsvRows rows without a schedule
LongCsv ==
    [i \in 1..LongCsvRows |-> ImportRowData(<<"c">>, <<"1", "1", "4">>, <<"1">>, <<>>, <<>>)]

\* the client during the import of the long CSV, request by request: the
\* second request gives the page, the first and the third give None or
\* raise, the others raise
LongCsvClient ==
    [i \in 1..LongCsvRows |->
        IF i = 2 THEN {"page"}
        ELSE IF i \in {1, 3} THEN {"nothing", "raises"}
        ELSE {"raises"}]

InitImport ==
    /\ SEMESTER_DATABASE = SeedDatabase
    /\ pc = "ready"
    /\ \/ \E year \in SampleYearColumns, semester \in SampleSemesterColumns,
            name \in SampleNameColumns, schedule \in SampleScheduleColumns,
            credits \in SampleCreditsColumns, instructor \in SampleInstructorColumns :
              call = [op |-> "parse_course_row",
                      row |-> year @@ semester @@ name @@ schedule @@ credits @@ instructor]
       \/ \E n \in 0..MaxRows : \E rows \in [1..n -> SampleImportRows] :
            \E extra_params \in SampleExtraParams :
              call = [op |-> "import_csv_to_database", rows |-> list(rows),
                      extra_params |-> extra_params,
                      client |-> list([i \in 1..n |-> ClientOutcomes])]
       \/ call = [op |-> "import_csv_to_database", rows |-> list(LongCsv),
                  extra_params |-> [semester_start |-> None, semester_end |-> None,
                                    course_sessions_db_id |-> None],
                  client |-> list(LongCsvClient)]
    /\ ret = None
    /\ writer = Idle
    /\ batch = NoBatch
    /\ frame = NoFrame

ParseCourseRow ==
    /\ pc = "ready"
    /\ call.op = "parse_course_row"
    /\ ret' = parse_course_row(call.row)
    /\ pc' = "done"
    /\ UNCHANGED <<SEMESTER_DATABASE, call, writer, batch, frame>>

\* up to the loop over the rows: a CSV without rows returns at once
BeginImport ==
    /\ pc = "ready"
    /\ call.op = "import_csv_to_database"
    /\ IF non_blank_rows(call.rows) = <<>>
       THEN /\ ret' = Returned(empty_result)
            /\ pc' = "done"
            /\ UNCHANGED batch
       ELSE /\ batch' = Batch(non_blank_rows(call.rows), call.extra_params)
            /\ pc' = "importing"
            /\ UNCHANGED ret
    /\ UNCHANGED <<SEMESTER_DATABASE, call, writer, frame>>

ImportRow ==
    /\ pc = "importing"
    /\ batch.row_num < Len(batch.rows)
    /\ \E outcome \in call.client[batch.row_num + 1] : batch' = import_row(batch, outcome)
    /\ UNCHANGED <<SEMESTER_DATABASE, pc, call, ret, writer, frame>>

\* "if created_courses and extra_params.get('course_sessions_db_id')"
SessionsWanted ==
    batch.created_courses # <<>> /\ batch.extra_params.course_sessions_db_id # None

GenerateCourse ==
    /\ pc = "importing"
    /\ batch.row_num = Len(batch.rows)
    /\ SessionsWanted
    /\ batch.generated < Len(batch.created_courses)
    /\ \E sent \in {course_requests(batch)} : \E outcome \in ClientOutcomes :
          batch' = generate_course(batch, sent, outcome)
    /\ UNCHANGED <<SEMESTER_DATABASE, pc, call, ret, writer, frame>>

ReturnImport ==
    /\ pc = "importing"
    /\ batch.row_num = Len(batch.rows)
    /\ SessionsWanted => batch.generated = Len(batch.created_courses)
    /\ ret' = Returned(import_result(batch))
    /\ pc' = "done"
    /\ UNCHANGED <<SEMESTER_DATABASE, call, writer, batch, frame>>

NextImport ==
    \/ ParseCourseRow
    \/ BeginImport
    \/ ImportRow
    \/ GenerateCourse
    \/ ReturnImport

SpecImport == InitImport /\ [][NextImport]_vars

----------------------------------------------------------------------------
(* What the grammar says of a composed notation, read off its pieces *)

InTable(weekday_str) == \E e \in WEEKDAY_MAP : e[1] = weekday_str
TableIndex(weekday_str) == (CHOOSE e \in WEEKDAY_MAP : e[1] = weekday_str)[2]
ValidPeriod(period) == period \in 1..Len(CLASS_PERIODS)

Composed == Parsed /\ call.pieces # <<>>

\* index of the group (counted from 1) the i-th piece belongs to
GroupOf(seps, i) == 1 + Cardinality({j \in 1..(i - 1) : seps[j] = <<",">>})

NumGroups(pieces, seps) == GroupOf(seps, Len(pieces))

\* the tokens of group g, in order
GroupTokens(pieces, seps, g) ==
    SelectSeq([i \in 1..Len(pieces) |-> <<pieces[i], GroupOf(seps, i)>>],
              LAMBDA pg : pg[2] = g /\ IsToken(pg[1]))

TokenPeriods(tokens) == {tokens[i][1][2] : i \in 1..Len(tokens)}
MinOf(S) == CHOOSE x \in S : \A y \in S : x <= y
MaxOf(S) == CHOOSE x \in S : \A y \in S : x >= y

\* the three ways a group gives nothing
GroupFails(tokens) ==
    \/ tokens = <<>>
    \/ ~InTable(tokens[1][1][1])
    \/ ~ValidPeriod(MinOf(TokenPeriods(tokens)))
    \/ ~ValidPeriod(MaxOf(TokenPeriods(tokens)))

\* weekday and period span the grammar gives a group that does not fail
GroupSpan(tokens) ==
    <<TableIndex(tokens[1][1][1]), MinOf(TokenPeriods(tokens)), MaxOf(TokenPeriods(tokens))>>

SpanOf(session) == <<session.weekday, session.start_period, session.end_period>>

----------------------------------------------------------------------------
(* Claims on the notation parser, checked under SpecParser *)

\* C6: for every weekday token of the weekday table and every period p in
\* 1..14, parsing the single token "<weekday><p>" returns exactly one session,
\* whose weekday is the table's index of the token and whose start and end
\* period are both p.
C6_SingleTokenOneSession ==
    (/\ Parsed
     /\ Len(call.pieces) = 1
     /\ InTable(call.pieces[1][1])
     /\ ValidPeriod(call.pieces[1][2]))
    => /\ ret.raised = "none"
       /\ Len(ret.value) = 1
       /\ SpanOf(ret.value[1]) =
            <<TableIndex(call.pieces[1][1]), call.pieces[1][2], call.pieces[1][2]>>

\* "Monday14" gives one session on weekday 0 with periods 14..14
C6_Witness ==
    /\ Parsed
    /\ call.pieces = <<  <<<<"M", "o", "n", "d", "a", "y">>, 14>>  >>
    /\ Len(ret.value) = 1
    /\ SpanOf(ret.value[1]) = <<0, 14, 14>>

\* C7: for one comma-free group with at least one token, at most one session
\* results; its weekday is the weekday of the first token only, whatever the
\* weekday parts of the later tokens are, and it spans the minimum to the
\* maximum of all period numbers of the group, whether the tokens are
\* separated by slashes or written one after the other.
C7_FirstWeekdayMinMaxSpan ==
    (/\ Composed
     /\ NumGroups(call.pieces, call.seps) = 1
     /\ GroupTokens(call.pieces, call.seps, 1) # <<>>)
    => /\ ret.raised = "none"
       /\ Len(ret.value) <= 1
       /\ ret.value # <<>> =>
            /\ InTable(GroupTokens(call.pieces, call.seps, 1)[1][1][1])
            /\ SpanOf(ret.value[1]) = GroupSpan(GroupTokens(call.pieces, call.seps, 1))

\* "san9/yi11" followed directly by "san2": the later tokens name another
\* weekday and the smallest period comes last; the session is Wednesday 2..11
C7_Witness ==
    /\ Composed
    /\ call.pieces = <<  <<<<"san">>, 9>>, <<<<"yi">>, 11>>, <<<<"san">>, 2>>  >>
    /\ call.seps = << <<"/">>, <<>> >>
    /\ Len(ret.value) = 1
    /\ SpanOf(ret.value[1]) = <<2, 2, 11>>

\* C8: a group contributes no session exactly when it has no token, or its
\* first token's weekday is not in the weekday table, or its smallest or
\* largest period is outside 1..14; every other group of the same notation
\* contributes its own session whatever the failing groups are.
C8_GroupFailsAlone ==
    Composed =>
      LET groups == 1..NumGroups(call.pieces, call.seps)
          tokens(g) == GroupTokens(call.pieces, call.seps, g)
          good == {g \in groups : ~GroupFails(tokens(g))}
      IN  /\ ret.raised = "none"
          /\ Len(ret.value) = Cardinality(good)
          /\ {SpanOf(ret.value[i]) : i \in 1..Len(ret.value)}
               = {GroupSpan(tokens(g)) : g \in good}

\* "x5,san9,er15": the first group names no weekday of the table, the third
\* has period 15, and the Wednesday session of the second group is returned
C8_Witness ==
    /\ Composed
    /\ call.pieces = <<  <<<<"x">>, 5>>, <<<<"san">>, 9>>, <<<<"er">>, 15>>  >>
    /\ call.seps = << <<",">>, <<",">> >>
    /\ Len(ret.value) = 1
    /\ SpanOf(ret.value[1]) = <<2, 9, 9>>

\* C9: parse_schedule never raises, whatever notation it is given, the
\* absent notation included.
C9_NeverRaises == Parsed => ret.raised = "none"

NumCommas(chars) == Cardinality({i \in 1..Len(chars) : chars[i] = ","})

\* C10: the returned list is in non-decreasing order of (weekday,
\* start_period), whatever the order of the groups in the notation, and holds
\* at most one session for each comma-separated group.
C10_SortedOnePerGroup ==
    (Parsed /\ ret.raised = "none") =>
      /\ \A i, j \in 1..Len(ret.value) :
            i < j => \/ ret.value[i].weekday < ret.value[j].weekday
                     \/ /\ ret.value[i].weekday = ret.value[j].weekday
                        /\ ret.value[i].start_period <= ret.value[j].start_period
      /\ Len(ret.value) <= NumCommas(call.schedule_str.chars) + 1

\* "san9,yi11,san2": the groups are written Wednesday, Monday, Wednesday and
\* come back Monday 11, Wednesday 2, Wednesday 9
C10_Witness ==
    /\ Parsed
    /\ call.pieces = <<  <<<<"san">>, 9>>, <<<<"yi">>, 11>>, <<<<"san">>, 2>>  >>
    /\ call.seps = << <<",">>, <<",">> >>
    /\ Len(ret.value) = 3
    /\ SpanOf(ret.value[1]) = <<0, 11, 11>>
    /\ SpanOf(ret.value[2]) = <<2, 2, 2>>
    /\ SpanOf(ret.value[3]) = <<2, 9, 9>>

----------------------------------------------------------------------------
(* Claims on the expander and the session generator, checked under Spec *)

Called(op) == pc = "done" /\ call.op = op

\* weekday of a day, counted from a known Monday (2025-09-01): Monday is 0
WeekdayFromMonday(d) == (d - datetime(2025, 9, 1)) % 7

Registered(year, semester) == <<year, semester>> \in DOMAIN SEMESTER_DATABASE

\* the blocks of a result that carry a week index (the smart-mode blocks)
WeekBlocks(blocks) == SelectSeq(blocks, LAMBDA b : b.week # None)

Row(year, semester, year_semester, schedule) ==
    [Year |-> year, Semester |-> semester, YearSemester |-> year_semester,
     Schedule |-> schedule]

\* the row Year "114", Semester "1", Schedule "san9/san10/san11"
WednesdayRow ==
    Row(<<"1", "1", "4">>, <<"1">>, <<>>,
        <<"san", "9", "/", "san", "1", "0", "/", "san", "1", "1">>)

\* the row Year "114", Semester "1", Schedule "er2,liu4"
TuesdaySaturdayRow ==
    Row(<<"1", "1", "4">>, <<"1">>, <<>>, <<"er", "2", ",", "liu", "4">>)

\* C1: in smart mode every block kept for creation has a week index from 1
\* to 18; a block whose week index would exceed 18 is not kept.
C1_WeekIndexFrom1To18 ==
    Called("generate_course_sessions") =>
        \A i \in 1..Len(ret.value) :
            ret.value[i].week # None =>
                (ret.value[i].week[1] >= 1 /\ ret.value[i].week[1] <= 18)

\* the Wednesday course of the seeded (114, 1) meets on 22 Wednesdays; 18
\* blocks are kept, the last one on 2025-12-31 in week 18
C1_Witness ==
    /\ Called("generate_course_sessions")
    /\ call.row_data = WednesdayRow
    /\ SEMESTER_DATABASE[<<114, 1>>] = SeedDatabase[<<114, 1>>]
    /\ Len(ret.value) = 18
    /\ ret.value[18].date = datetime(2025, 12, 31)
    /\ ret.value[18].week = Some(18)

\* C2: in smart mode the week index of every block is
\* floor((block date - anchor) / 7) + 1 with the date of the first block as
\* the anchor, so that the first block has week index 1 also when the
\* semester starts on an earlier day.
C2_WeekCountedFromFirstBlock ==
    (Called("generate_course_sessions") /\ WeekBlocks(ret.value) # <<>>) =>
        /\ ret.value[1].week = Some(1)
        /\ \A i \in 1..Len(ret.value) :
              ret.value[i].week = Some(((ret.value[i].date - ret.value[1].date) \div 7) + 1)

\* (114, 1) starts on Monday 2025-09-01; the first block of the Tuesday and
\* Saturday course is Tuesday 2025-09-02 in week 1, Saturday 2025-09-06 is in
\* week 1 and Tuesday 2025-09-09 in week 2
C2_Witness ==
    /\ Called("generate_course_sessions")
    /\ call.row_data = TuesdaySaturdayRow
    /\ SEMESTER_DATABASE[<<114, 1>>].start_date = datetime(2025, 9, 1)
    /\ Len(ret.value) >= 3
    /\ ret.value[1].date = datetime(2025, 9, 2) /\ ret.value[1].week = Some(1)
    /\ ret.value[2].date = datetime(2025, 9, 6) /\ ret.value[2].week = Some(1)
    /\ ret.value[3].date = datetime(2025, 9, 9) /\ ret.value[3].week = Some(2)

\* C3: for a registered semester every occurrence get_class_dates returns is
\* dated within [start_date, end_date] of that semester, on the weekday of
\* the session it carries.
C3_DatesWithinSemesterOnWeekday ==
    (Called("get_class_dates") /\ Registered(call.semester_year, call.semester_num)) =>
        LET semester == SEMESTER_DATABASE[<<call.semester_year, call.semester_num>>] IN
        \A k \in 1..Len(ret.value) :
            /\ semester.start_date <= ret.value[k].date
            /\ ret.value[k].date <= semester.end_date
            /\ WeekdayFromMonday(ret.value[k].date) = ret.value[k].weekday
            /\ \E i \in 1..Len(call.sessions) :
                  Occurrence(ret.value[k].date, call.sessions[i]) = ret.value[k]

\* a Wednesday session in the seeded (114, 1), 2025-09-01 to 2026-01-31: 22
\* Wednesdays from 2025-09-03 to 2026-01-28
C3_Witness ==
    /\ Called("get_class_dates")
    /\ call.sessions = <<built_session(2, 9, 11)>>
    /\ call.exclude_dates = <<>>
    /\ <<call.semester_year, call.semester_num>> = <<114, 1>>
    /\ SEMESTER_DATABASE[<<114, 1>>] = SeedDatabase[<<114, 1>>]
    /\ Len(ret.value) = 22
    /\ ret.value[1].date = datetime(2025, 9, 3)
    /\ ret.value[22].date = datetime(2026, 1, 28)

\* the days of a semester that are not excluded
OpenDays(semester, exclude_dates) ==
    {d \in semester.start_date..semester.end_date :
        \A i \in 1..Len(exclude_dates) : exclude_dates[i] # d}

\* C4: for a registered semester get_class_dates returns exactly one
\* occurrence for every pair of a day and a session such that the day is in
\* [start_date, end_date], is not excluded and falls on the session's
\* weekday, and nothing else; the occurrences are in order of date and,
\* within one date, in the order of the sessions list; each carries the
\* times and periods of its session.
C4_ExactlyTheMatchingDays ==
    (Called("get_class_dates") /\ Registered(call.semester_year, call.semester_num)) =>
        LET semester == SEMESTER_DATABASE[<<call.semester_year, call.semester_num>>]
            days == OpenDays(semester, call.exclude_dates)
            pairs == {<<d, i>> \in days \X (1..Len(call.sessions)) :
                        WeekdayFromMonday(d) = call.sessions[i].weekday}
            dates == {ret.value[k].date : k \in 1..Len(ret.value)}
            on(d) == SelectSeq(ret.value, LAMBDA x : x.date = d)
            meeting(d) == SelectSeq(call.sessions,
                                    LAMBDA x : x.weekday = WeekdayFromMonday(d))
        IN  /\ Len(ret.value) = Cardinality(pairs)
            /\ dates \subseteq days
            /\ \A k \in 1..(Len(ret.value) - 1) : ret.value[k].date <= ret.value[k + 1].date
            /\ \A d \in dates :
                  /\ Len(on(d)) = Len(meeting(d))
                  /\ \A i \in 1..Len(on(d)) :
                        on(d)[i] = [date |-> d, weekday |-> meeting(d)[i].weekday,
                                    start_time |-> meeting(d)[i].start_time,
                                    end_time |-> meeting(d)[i].end_time,
                                    start_period |-> meeting(d)[i].start_period,
                                    end_period |-> meeting(d)[i].end_period]

\* sessions Wednesday 9..11 then Wednesday 2, the first Wednesday excluded:
\* 21 Wednesdays with two occurrences each, 9..11 before 2 on every day
C4_Witness ==
    /\ Called("get_class_dates")
    /\ call.sessions = <<built_session(2, 9, 11), built_session(2, 2, 2)>>
    /\ call.exclude_dates = <<datetime(2025, 9, 3)>>
    /\ <<call.semester_year, call.semester_num>> = <<114, 1>>
    /\ SEMESTER_DATABASE[<<114, 1>>] = SeedDatabase[<<114, 1>>]
    /\ Len(ret.value) = 42
    /\ ret.value[1].date = datetime(2025, 9, 10) /\ ret.value[1].start_period = 9
    /\ ret.value[2].date = datetime(2025, 9, 10) /\ ret.value[2].start_period = 2

\* C5: when (year, semester) is not a key of the semester table,
\* get_class_dates and get_course_dates return an empty list without
\* raising, and smart mode produces no block for a course whose row names
\* that year and semester.
C5_UnknownSemesterGivesNothing ==
    /\ (Called("get_class_dates") /\ ~Registered(call.semester_year, call.semester_num))
          => ret = Returned(<<>>)
    /\ (Called("get_course_dates")
            /\ ~Registered(call.course_data.year, call.course_data.semester))
          => ret = Returned(<<>>)
    /\ Called("generate_course_sessions") =>
          LET year == int_parse(year_and_semester(call.row_data)[1])
              sem == int_parse(year_and_semester(call.row_data)[2])
          IN  (year # None /\ sem # None /\ ~Registered(year[1], sem[1]))
                => (ret.raised = "none" /\ WeekBlocks(ret.value) = <<>>)

\* a Wednesday and a Saturday session asked for (116, 1), which is not in
\* the table: nothing is returned
C5_Witness ==
    /\ Called("get_class_dates")
    /\ call.sessions = <<built_session(2, 9, 11), built_session(5, 4, 4)>>
    /\ <<call.semester_year, call.semester_num>> = <<116, 1>>
    /\ ~Registered(116, 1)
    /\ ret = Returned(<<>>)

----------------------------------------------------------------------------
(* Claims on the semester table, checked under SpecSync *)

\* the step in which update_semester_info(key, w) is called on its own
UpdateStep(key, w) ==
    /\ SEMESTER_DATABASE' = update_semester_info(key[1], key[2], w[1], w[2])
    /\ writer'.op = "update_semester_info"
    /\ writer'.semesters = <<SemesterDates(key, Some(w[1]), Some(w[2]))>>
    /\ UNCHANGED <<pc, call, ret>>

\* a step of the for loop of apply_semesters_to_config
ApplyStep ==
    /\ writer.op = "apply_semesters_to_config"
    /\ writer'.op = "apply_semesters_to_config"
    /\ writer'.semesters = writer.semesters
    /\ writer'.applied > writer.applied

\* key holds the same in the table before and after the step
SameEntry(key) ==
    /\ key \in DOMAIN SEMESTER_DATABASE <=> key \in DOMAIN SEMESTER_DATABASE'
    /\ key \in DOMAIN SEMESTER_DATABASE => SEMESTER_DATABASE'[key] = SEMESTER_DATABASE[key]

AllKeys == DOMAIN SeedDatabase \cup SyncKeys

\* C11: update_semester_info is idempotent: whatever the table holds, the
\* same call made again on the table the first call left leaves that table
\* as it is.
C11_UpdateIdempotent ==
    [][\A key \in SyncKeys, w \in SyncWindows :
          UpdateStep(key, w) =>
              update_semester_info(key[1], key[2], w[1], w[2])' = SEMESTER_DATABASE']_vars

\* (116, 1), which is not seeded, was written with the first window, and
\* writing it again would leave the table as it is
C11_Witness ==
    /\ writer.op = "update_semester_info"
    /\ writer.semesters[1].key = <<116, 1>>
    /\ SEMESTER_DATABASE[<<116, 1>>]
          = Semester(116, 1, datetime(2025, 9, 8), datetime(2026, 1, 16))
    /\ update_semester_info(116, 1, datetime(2025, 9, 8), datetime(2026, 1, 16))
          = SEMESTER_DATABASE

\* C12: last write wins per key: after update_semester_info(y, s, a, b),
\* called on its own or by the batch loop, get_semester_info(y, s) returns
\* the semester (y, s, a, b) whatever was stored before, and the entry of
\* every other key is as it was.
C12_LastWriteWinsPerKey ==
    [][/\ \A key \in SyncKeys, w \in SyncWindows :
            UpdateStep(key, w) =>
               /\ get_semester_info(key[1], key[2])'
                     = Some(Semester(key[1], key[2], w[1], w[2]))
               /\ \A other \in AllKeys \ {key} : SameEntry(other)
       /\ (ApplyStep /\ writer'.applied = writer.applied + 1) =>
            \A item \in {writer.semesters[writer.applied + 1]} :
               /\ get_semester_info(item.key[1], item.key[2])'
                     = Some(Semester(item.key[1], item.key[2], item.start[1], item.end[1]))
               /\ \A other \in AllKeys \ {item.key} : SameEntry(other)]_vars

\* the seeded (114, 1) was overwritten with the second window; (113, 1) and
\* (114, 2) are as seeded
C12_Witness ==
    /\ writer.op = "update_semester_info"
    /\ writer.semesters[1].key = <<114, 1>>
    /\ get_semester_info(114, 1)
          = Some(Semester(114, 1, datetime(2025, 9, 15), datetime(2026, 1, 23)))
    /\ SEMESTER_DATABASE[<<113, 1>>] = SeedDatabase[<<113, 1>>]
    /\ SEMESTER_DATABASE[<<114, 2>>] = SeedDatabase[<<114, 2>>]

\* C13: a batch is not applied atomically: each step of the loop of
\* apply_semesters_to_config writes one item, so between two steps the table
\* holds the new dates for the items written so far and the old entries for
\* the items still to come, and a reader running at that point sees both.
C13_BatchWrittenItemByItem ==
    [][ApplyStep =>
          /\ writer'.applied = writer.applied + 1
          /\ SEMESTER_DATABASE'
                = semesters_applied(SEMESTER_DATABASE,
                                    <<writer.semesters[writer.applied + 1]>>)
          /\ \A i \in (writer.applied + 2)..Len(writer.semesters) :
                SameEntry(writer.semesters[i].key)]_vars

\* a batch of two valid items, (114, 1) then (114, 2): get_all_semesters
\* returned, in the middle of the batch, a table with the new (114, 1) and
\* the seeded (114, 2)
C13_Witness ==
    /\ writer.op = "apply_semesters_to_config"
    /\ Len(writer.semesters) = 2
    /\ writer.applied = 1
    /\ writer.semesters[1].key = <<114, 1>>
    /\ writer.semesters[2].key = <<114, 2>>
    /\ pc = "done"
    /\ call.op = "get_all_semesters"
    /\ ret.value[<<114, 1>>].start_date = writer.semesters[1].start[1]
    /\ ret.value[<<114, 1>>].end_date = writer.semesters[1].end[1]
    /\ ret.value[<<114, 2>>] = SeedDatabase[<<114, 2>>]
    /\ ret.value[<<114, 2>>].start_date # writer.semesters[2].start[1]

\* C14: semester entries are never deleted: whatever the writer and the
\* reader do, a key of the table is a key of the table after every step, the
\* six seeded keys included, and the table changes only by an
\* update_semester_info.
C14_EntriesNeverDeleted ==
    [][/\ DOMAIN SEMESTER_DATABASE \subseteq DOMAIN SEMESTER_DATABASE'
       /\ DOMAIN SeedDatabase \subseteq DOMAIN SEMESTER_DATABASE'
       /\ SEMESTER_DATABASE' # SEMESTER_DATABASE =>
             \E key \in SyncKeys, w \in SyncWindows :
                SEMESTER_DATABASE' = update_semester_info(key[1], key[2], w[1], w[2])]_vars

\* (116, 1) was added and a batch of two items was applied after it: (116, 1)
\* and the six seeded keys are all in the table
C14_Witness ==
    /\ writer.op = "apply_semesters_to_config"
    /\ Len(writer.semesters) = 2
    /\ writer.applied = 2
    /\ \A i \in 1..2 : writer.semesters[i].key # <<116, 1>>
    /\ DOMAIN SEMESTER_DATABASE = DOMAIN SeedDatabase \cup {<<116, 1>>}

----------------------------------------------------------------------------
(* Claims on the merger and on the legacy fallback, checked under Spec *)

\* smart mode produced the blocks of the result
SmartModeRan == Called("generate_course_sessions") /\ WeekBlocks(ret.value) # <<>>

\* the occurrences the blocks of the result were merged from
SmartOccurrences ==
    LET year == int_parse(year_and_semester(call.row_data)[1])[1]
        sem == int_parse(year_and_semester(call.row_data)[2])[1]
    IN  get_class_dates(parse_schedule(Str(call.row_data.Schedule)).value, year, sem, <<>>)

\* one block for every date of the occurrences occ
OneBlockPerDate(occ) ==
    /\ \A i, j \in 1..Len(ret.value) : i # j => ret.value[i].date # ret.value[j].date
    /\ \A i \in 1..Len(ret.value) : \E k \in 1..Len(occ) : occ[k].date = ret.value[i].date
    /\ \A k \in 1..Len(occ) :
          occ[k].date - occ[1].date < 18 * 7
            => \E i \in 1..Len(ret.value) : ret.value[i].date = occ[k].date

\* every block starts with the earliest start of its date
EarliestStart(occ) ==
    \A i \in 1..Len(ret.value) :
        ret.value[i].start_time
          = Some(MinOf({occ[k].start_time :
                          k \in {k \in 1..Len(occ) : occ[k].date = ret.value[i].date}}))

\* every block ends with the latest end of its date
LatestEnd(occ) ==
    \A i \in 1..Len(ret.value) :
        ret.value[i].end_time
          = Some(MaxOf({occ[k].end_time :
                          k \in {k \in 1..Len(occ) : occ[k].date = ret.value[i].date}}))

\* C15: the merger produces exactly one block for every date of an
\* occurrence (of the first 18 weeks), and every block starts at the earliest
\* start time and ends at the latest end time of the occurrences of its date.
C15_EarliestStartLatestEnd ==
    SmartModeRan =>
        \A occ \in {SmartOccurrences} :
            OneBlockPerDate(occ) /\ EarliestStart(occ) /\ LatestEnd(occ)

\* legacy mode produced the blocks of the result
LegacyModeRan ==
    /\ Called("generate_course_sessions")
    /\ ret.value # <<>>
    /\ WeekBlocks(ret.value) = <<>>

\* the global start and end the call was given, both valid when legacy mode ran
GlobalStart == call.semester_start[1].date
GlobalEnd == call.semester_end[1].date

\* a day, or the global end when the day is after it
NotAfterEnd(d) == IF d > GlobalEnd THEN GlobalEnd ELSE d

\* floor(total_weeks / 18) for total_weeks = days / 7
FloorWeeksDiv18 == (GlobalEnd - GlobalStart) \div (7 * 18)

\* the legacy blocks are the 18 blocks spaced by weeks_per_session weeks
LegacyBlocksSpacedBy(weeks_per_session) ==
    /\ Len(ret.value) = 18
    /\ \A i \in 1..Len(ret.value) :
          /\ ret.value[i].date = NotAfterEnd(GlobalStart + 7 * (i - 1) * weeks_per_session)
          /\ ret.value[i].date <= GlobalEnd
          /\ ret.value[i].start_time = None
          /\ ret.value[i].end_time = None

\* C16 as stated: the legacy fallback generates exactly 18 blocks, block i
\* dated S + (i - 1) * floor(total_weeks / 18) weeks, or E when that date is
\* after E; no block is later than E and none carries a start or end time.
C16_SpacedByFloorOfWeeks ==
    LegacyModeRan => LegacyBlocksSpacedBy(FloorWeeksDiv18)

\* C16 as amended: the legacy fallback generates exactly 18 blocks, block i
\* dated S + (i - 1) * max(1, floor(total_weeks / 18)) weeks, or E when that
\* date is after E; no block is later than E and none carries a start or end
\* time.
C16_SpacedByAtLeastOneWeek ==
    LegacyModeRan =>
        LegacyBlocksSpacedBy(IF FloorWeeksDiv18 > 1 THEN FloorWeeksDiv18 ELSE 1)

\* 2025-09-01 to 2025-10-31, 8 weeks: the blocks are one week apart, the
\* ninth on 2025-10-27 and the tenth to the eighteenth on 2025-10-31
C16_Witness ==
    /\ LegacyModeRan
    /\ GlobalStart = datetime(2025, 9, 1)
    /\ GlobalEnd = datetime(2025, 10, 31)
    /\ Len(ret.value) = 18
    /\ ret.value[2].date = datetime(2025, 9, 8)
    /\ ret.value[9].date = datetime(2025, 10, 27)
    /\ ret.value[10].date = datetime(2025, 10, 31)
    /\ ret.value[18].date = datetime(2025, 10, 31)

----------------------------------------------------------------------------
(* Claims on the whole pipeline of one row, checked under Spec *)

\* the year and the semester of the row of the call, when both are numbers
RowYear == int_parse(year_and_semester(call.row_data)[1])
RowSemester == int_parse(year_and_semester(call.row_data)[2])

\* the row names a semester of the table
RowRegistered ==
    /\ RowYear # None
    /\ RowSemester # None
    /\ Registered(RowYear[1], RowSemester[1])

\* the sessions the schedule of the row parses to
RowSessions == parse_schedule(Str(call.row_data.Schedule)).value

\* the days of the semester that fall on weekday, in order
DaysOn(semester, weekday) ==
    {d \in semester.start_date..semester.end_date : WeekdayFromMonday(d) = weekday}

\* the row Year "114", Semester "1", Schedule "san9,san10,san11"
WednesdayGroupsRow ==
    Row(<<"1", "1", "4">>, <<"1">>, <<>>,
        <<"san", "9", ",", "san", "1", "0", ",", "san", "1", "1">>)

\* C17: for a row that names a registered semester ((114, 1) in the
\* scenario) and whose schedule has all its groups on one weekday, the
\* pipeline yields one merged block per week: with N the number of days of
\* that weekday in the semester window, there are min(N, 18) blocks, block i
\* is dated i - 1 weeks after the first such day on or after the semester
\* start and has week index i.
C17_OneBlockPerWeek ==
    (/\ Called("generate_course_sessions")
     /\ RowRegistered
     /\ RowSessions # <<>>
     /\ \A i \in 1..Len(RowSessions) : RowSessions[i].weekday = RowSessions[1].weekday)
    => LET semester == SEMESTER_DATABASE[<<RowYear[1], RowSemester[1]>>]
           days == DaysOn(semester, RowSessions[1].weekday)
           blocks == WeekBlocks(ret.value)
       IN  /\ Len(blocks) = (IF Cardinality(days) < 18 THEN Cardinality(days) ELSE 18)
           /\ days # {} => blocks = ret.value
           /\ \A i \in 1..Len(blocks) :
                 /\ blocks[i].date = MinOf(days) + 7 * (i - 1)
                 /\ blocks[i].week = Some(i)

\* "san9,san10,san11" in the seeded (114, 1), which starts on Monday
\* 2025-09-01: 18 blocks, the first on Wednesday 2025-09-03 from 14:10 to
\* 17:10 in week 1, the last on 2025-12-31 in week 18
C17_Witness ==
    /\ Called("generate_course_sessions")
    /\ call.row_data = WednesdayGroupsRow
    /\ SEMESTER_DATABASE[<<114, 1>>] = SeedDatabase[<<114, 1>>]
    /\ Len(ret.value) = 18
    /\ ret.value[1] = Block(datetime(2025, 9, 3), Some(time(14, 10)), Some(time(17, 10)),
                            Some(1))
    /\ ret.value[18].date = datetime(2025, 12, 31)
    /\ ret.value[18].week = Some(18)

----------------------------------------------------------------------------
(* Claims on the row interpreter and on the batch import, checked under     *)
(* SpecImport                                                               *)

YearAliases == <<"xuenian", "Year", "year">>
SemesterAliases == <<"xueqi", "Semester", "semester">>
NameAliases == <<"kechengmingcheng", "Name", "name">>
ScheduleAliases == <<"shangkeshijian", "Schedule", "schedule">>

\* the row holds a value under the column name that is not the empty text
Filled(row, key) == key \in DOMAIN row /\ row[key] # Str(<<>>)

Given(row, aliases) == \E i \in 1..Len(aliases) : Filled(row, aliases[i])

\* the value of a logical column: the first filled alias
CellOf(row, aliases) ==
    row[aliases[CHOOSE i \in 1..Len(aliases) :
                    Filled(row, aliases[i]) /\ \A j \in 1..(i - 1) : ~Filled(row, aliases[j])]]

\* the cell is a number, or a text of decimal digits
IsInteger(cell) ==
    \/ cell.type = "int"
    \/ /\ strip(cell.chars) # <<>>
       /\ \A i \in 1..Len(strip(cell.chars)) : IsDigit(strip(cell.chars)[i])

\* the row must give no record: a mandatory column is missing or empty, the
\* year or the semester is no integer, or the notation has no session
MustGiveNoRecord(row) ==
    \/ ~Given(row, NameAliases)
    \/ ~Given(row, YearAliases)
    \/ ~Given(row, SemesterAliases)
    \/ ~Given(row, ScheduleAliases)
    \/ ~IsInteger(CellOf(row, YearAliases))
    \/ ~IsInteger(CellOf(row, SemesterAliases))
    \/ /\ CellOf(row, ScheduleAliases).type = "str"
       /\ parse_schedule(CellOf(row, ScheduleAliases)).value = <<>>

RecordFields ==
    {"year", "semester", "code", "name", "instructor", "schedule_str",
     "schedule_sessions", "hours", "credits"}

\* C18: parse_course_row never raises; it returns a complete record or no
\* record; it returns no record when the name, the year, the semester or the
\* schedule is missing or empty, when the year or the semester is no integer,
\* and when the schedule parses to no session; a returned record has at least
\* one session.
C18_NoRecordOrCompleteRecord ==
    (pc = "done" /\ call.op = "parse_course_row") =>
        /\ ret.raised = "none"
        /\ \/ ret.value = None
           \/ /\ Len(ret.value) = 1
              /\ DOMAIN ret.value[1] = RecordFields
              /\ ret.value[1].year \in Nat
              /\ ret.value[1].semester \in Nat
              /\ ret.value[1].schedule_sessions # <<>>
        /\ MustGiveNoRecord(call.row) => ret.value = None

\* every mandatory column is given and the year and the semester are
\* integers, but the schedule cell is a number, on which parse_schedule
\* raises: parse_course_row returned no record
C18_Witness ==
    /\ pc = "done"
    /\ call.op = "parse_course_row"
    /\ ~MustGiveNoRecord(call.row)
    /\ CellOf(call.row, ScheduleAliases).type = "int"
    /\ ret = Returned(None)

\* the step is one pass of the import loop, on a row without a schedule
ImportsRowWithoutSchedule ==
    /\ pc = "importing"
    /\ pc' = "importing"
    /\ batch'.row_num = batch.row_num + 1
    /\ batch.rows[batch'.row_num].Schedule = <<>>

\* the import has returned: no exception came out of it, and if the CSV had
\* rows every one of them went through the loop
ImportReturnedAfterAllRows ==
    (pc = "done" /\ call.op = "import_csv_to_database") =>
        /\ ret.raised = "none"
        /\ batch # NoBatch =>
              /\ batch.row_num = Len(batch.rows)
              /\ Len(batch.pages) = Len(batch.rows)

\* C19 as stated: in a batch import a row without a schedule raises the
\* failed count by one, no exception propagates out of the batch, and the
\* rows after it are still processed.
C19_RowWithoutScheduleFails ==
    [][ /\ ImportsRowWithoutSchedule => batch'.failed = batch.failed + 1
        /\ ImportReturnedAfterAllRows' ]_vars

\* C19, amended: in a batch import a row without a schedule is counted once,
\* like any other row: in imported when its page is created, in failed (by
\* one) when the create returns nothing or raises; no exception propagates
\* out of the batch, and the rows after it are still processed.
C19_RowWithoutScheduleCountedOnce ==
    [][ /\ ImportsRowWithoutSchedule =>
              IF batch'.pages[batch'.row_num].outcome = "page"
              THEN batch'.imported = batch.imported + 1 /\ batch'.failed = batch.failed
              ELSE batch'.imported = batch.imported /\ batch'.failed = batch.failed + 1
        /\ ImportReturnedAfterAllRows' ]_vars

\* a CSV of two rows whose first row has no schedule: its page was created,
\* the second row was imported after it, and the import returned 2 imported
\* and 0 failed
C19_Witness ==
    /\ pc = "done"
    /\ call.op = "import_csv_to_database"
    /\ batch # NoBatch
    /\ Len(batch.rows) = 2
    /\ batch.rows[1].Schedule = <<>>
    /\ batch.pages[1].outcome = "page"
    /\ batch.pages[2].outcome = "page"
    /\ ret.value.imported = 2
    /\ ret.value.failed = 0

FirstHyphen(chars) ==
    CHOOSE i \in 1..Len(chars) : chars[i] = "-" /\ \A j \in 1..(i - 1) : chars[j] # "-"

BeforeFirstHyphen(chars) == SubSeq(chars, 1, FirstHyphen(chars) - 1)
AfterFirstHyphen(chars) == SubSeq(chars, FirstHyphen(chars) + 1, Len(chars))

\* a row given to parse_course_row: no year column, and a semester cell
\* that holds a hyphen
CombinedOnly(row) ==
    /\ \A i \in 1..Len(YearAliases) : YearAliases[i] \notin DOMAIN row
    /\ Given(row, SemesterAliases)
    /\ CellOf(row, SemesterAliases).type = "str"
    /\ contains(CellOf(row, SemesterAliases).chars, "-")

\* the same row with the token taken apart at its first hyphen: a year
\* column with the text before it, the semester cell with the text after it
SeparateColumns(row) ==
    LET token == CellOf(row, SemesterAliases).chars IN
    ("Year" :> Str(BeforeFirstHyphen(token)))
        @@ [key \in DOMAIN row |->
                IF row[key] = CellOf(row, SemesterAliases)
                   /\ \E i \in 1..Len(SemesterAliases) : SemesterAliases[i] = key
                THEN Str(AfterFirstHyphen(token)) ELSE row[key]]

\* a row of the CSV: an empty Year cell and a Semester cell that holds a hyphen
CombinedOnlyData(row_data) == row_data.Year = <<>> /\ contains(row_data.Semester, "-")

SeparateColumnsData(row_data) ==
    [row_data EXCEPT !.Year = BeforeFirstHyphen(row_data.Semester),
                     !.Semester = AfterFirstHyphen(row_data.Semester)]

\* the create-session requests that a course gets when its row is row_data
RequestsOf(course, row_data) ==
    session_requests(course,
                     course_sessions(row_data, batch.extra_params.semester_start,
                                     batch.extra_params.semester_end),
                     locals_after(None, None, row_data)[1],
                     locals_after(None, None, row_data)[2])

\* the requests of the batch that were sent for the course
RequestsSentFor(course) == SelectSeq(batch.requests, LAMBDA r : r.course_id = course.id)

\* C20 as stated: a combined "<year>-<semester>" token in the semester
\* column, with no year column, is accepted and taken apart at its first
\* hyphen (the year before it, the semester everything after it):
\* parse_course_row returns what it returns for the row with the two
\* separate columns, and in a batch import the course of such a row gets the
\* blocks of the row with the two separate columns.
C20_CombinedSemesterLikeSeparateColumns ==
    /\ (pc = "done" /\ call.op = "parse_course_row" /\ CombinedOnly(call.row)) =>
          ret = parse_course_row(SeparateColumns(call.row))
    /\ (call.op = "import_csv_to_database" /\ batch # NoBatch) =>
          \A i \in 1..batch.generated :
              \A course \in {batch.created_courses[i]} :
                  CombinedOnlyData(course.row_data) =>
                      RequestsSentFor(course) =
                          RequestsOf(course, SeparateColumnsData(course.row_data))

\* the text between the first hyphen and the second one (all the text after
\* the first hyphen when there is no second one)
UpToSecondHyphen(chars) ==
    IF contains(AfterFirstHyphen(chars), "-")
    THEN BeforeFirstHyphen(AfterFirstHyphen(chars))
    ELSE AfterFirstHyphen(chars)

HyphenPartsData(row_data) ==
    [row_data EXCEPT !.Year = BeforeFirstHyphen(row_data.Semester),
                     !.Semester = UpToSecondHyphen(row_data.Semester)]

\* C20, amended: a combined "<year>-<semester>" token in the semester
\* column, with no year column, is accepted by the session generator of the
\* batch import and taken apart at its hyphens, the year being the text
\* before the first hyphen and the semester the text between the first
\* hyphen and the second one (everything after the first when there is no
\* second): the course gets the blocks of the row with these two separate
\* columns, so "114-1" resolves like year 114, semester 1. parse_course_row
\* does not take such a token: it returns no record.
C20_CombinedSemesterSplitAtHyphens ==
    /\ (pc = "done" /\ call.op = "parse_course_row" /\ CombinedOnly(call.row)) =>
          ret = Returned(None)
    /\ (call.op = "import_csv_to_database" /\ batch # NoBatch) =>
          \A i \in 1..batch.generated :
              \A course \in {batch.created_courses[i]} :
                  CombinedOnlyData(course.row_data) =>
                      RequestsSentFor(course) =
                          RequestsOf(course, HyphenPartsData(course.row_data))

\* a CSV of two rows, Year "114" / Semester "1" and then the combined
\* Semester "114-1" with the same schedule: both courses got their sessions,
\* 18 requests each, with the same dates, times, weeks and semester label
C20_Witness ==
    /\ pc = "done"
    /\ call.op = "import_csv_to_database"
    /\ batch # NoBatch
    /\ batch.generated = 2
    /\ batch.created_courses[1].row_data.Year = <<"1", "1", "4">>
    /\ batch.created_courses[1].row_data.Semester = <<"1">>
    /\ batch.created_courses[2].row_data.Year = <<>>
    /\ batch.created_courses[2].row_data.Semester = <<"1", "1", "4", "-", "1">>
    /\ Len(batch.requests) = 36
    /\ \A i \in 1..18 :
          batch.requests[i + 18] = [batch.requests[i] EXCEPT !.course_id = 2]
    /\ ret.value.sessions_created = 36

----------------------------------------------------------------------------
(* Claims on the session requests of the batch import, checked under        *)
(* SpecImport                                                               *)

\* sessions_to_create of a course of the batch
BlocksOf(course) ==
    course_sessions(course.row_data, batch.extra_params.semester_start,
                    batch.extra_params.semester_end)

\* the request carries the block: the same date; the start and end time of
\* a block that has them; for a block without time of day no time and a
\* week index in 1..18
RequestFor(request, block) ==
    /\ request.date = block.date
    /\ block.start_time # None =>
          request.start = block.start_time /\ request.end = block.end_time
    /\ block.start_time = None =>
          /\ request.start = None
          /\ request.week # None
          /\ request.week[1] \in 1..18

\* C21: every block generated for a course is handed to the client as one
\* create-session request: a block with time of day carries its times, a
\* block without time of day (each of the 18 legacy blocks) is sent with the
\* date alone and a week index in 1..18.
C21_EveryBlockSent ==
    (call.op = "import_csv_to_database" /\ batch # NoBatch) =>
        \A i \in 1..batch.generated :
            \A course \in {batch.created_courses[i]} :
                \A blocks \in {BlocksOf(course)} :
                    \A sent \in {RequestsSentFor(course)} :
                        /\ Len(sent) = Len(blocks)
                        /\ \A j \in 1..Len(blocks) : RequestFor(sent[j], blocks[j])

\* C22: the resolution of a row keeps no state from other rows: with the
\* semester table and the global dates fixed, the requests sent for a course
\* (dates, times, week indices, semester label) are those its row gets when
\* it is resolved on its own, whatever rows come before or after it in the
\* batch.
C22_NoCrossRowState ==
    (call.op = "import_csv_to_database" /\ batch # NoBatch) =>
        \A i \in 1..batch.generated :
            \A course \in {batch.created_courses[i]} :
                RequestsSentFor(course) = RequestsOf(course, course.row_data)

\* a batch of two courses: the first is of the unregistered (116, 1), which
\* binds year and sem and gets no block, the second is of (114, 1) and got
\* its 18 requests, all labelled 114-1
C22_Witness ==
    /\ call.op = "import_csv_to_database"
    /\ batch # NoBatch
    /\ batch.generated = 2
    /\ batch.created_courses[1].row_data.Year = <<"1", "1", "6">>
    /\ batch.created_courses[2].row_data.Year = <<"1", "1", "4">>
    /\ batch.created_courses[2].row_data.Schedule # <<>>
    /\ Len(batch.requests) = 18
    /\ \A j \in 1..18 : batch.requests[j].semester = Some(<<114, 1>>)

----------------------------------------------------------------------------
(* Further claims on the notation parser, checked under SpecParser *)

\* C23: every ClassSession the parser builds has start_period <= end_period,
\* both periods in 1..14, the start time of start_period and the end time of
\* end_period in the period table.
C23_TimesFollowPeriods ==
    (Parsed /\ ret.raised = "none") =>
        \A i \in 1..Len(ret.value) :
            /\ ret.value[i].start_period <= ret.value[i].end_period
            /\ ret.value[i].start_period \in 1..14
            /\ ret.value[i].end_period \in 1..14
            /\ ret.value[i].start_time = CLASS_PERIODS[ret.value[i].start_period][1]
            /\ ret.value[i].end_time = CLASS_PERIODS[ret.value[i].end_period][2]

\* "san9/san2": one session of periods 2..9, from 07:10 (the start of period
\* 2) to 15:00 (the end of period 9)
C23_Witness ==
    /\ Parsed
    /\ call.pieces = <<  <<<<"san">>, 9>>, <<<<"san">>, 2>>  >>
    /\ call.seps = << <<"/">> >>
    /\ Len(ret.value) = 1
    /\ ret.value[1].start_period = 2
    /\ ret.value[1].end_period = 9
    /\ ret.value[1].start_time = time(7, 10)
    /\ ret.value[1].end_time = time(15, 0)

----------------------------------------------------------------------------
(* Further claims on the expander and the merger, checked under Spec *)

\* what the call under observation returns in the current state
ResultOfCall ==
    CASE call.op = "get_class_dates" ->
           Returned(get_class_dates(call.sessions, call.semester_year,
                                    call.semester_num, call.exclude_dates))
      [] call.op = "get_course_dates" ->
           Returned(get_course_dates(call.course_data, call.exclude_dates))
      [] call.op = "generate_course_sessions" ->
           Returned(course_sessions(call.row_data, call.semester_start, call.semester_end))

C25_SurvivorsKeepWeekAndOrder ==
    SmartModeRan =>
        \A occ \in {SmartOccurrences} :
            \A anchor \in {MinOf({occ[k].date : k \in 1..Len(occ)})} :
                /\ \A i \in 1..Len(ret.value) :
                      ret.value[i].week = Some(((ret.value[i].date - anchor) \div 7) + 1)
                /\ \A i, j \in 1..Len(ret.value) :
                      i < j => /\ ret.value[i].date < ret.value[j].date
                               /\ ret.value[i].week[1] <= ret.value[j].week[1]
                /\ \A k \in 1..Len(occ) :
                      (\E i \in 1..Len(ret.value) : ret.value[i].date >= occ[k].date)
                        => \E i \in 1..Len(ret.value) : ret.value[i].date = occ[k].date

\* the Tuesday and Saturday course of the seeded (114, 1): 36 blocks are
\* kept, two in every week, the last one in week 18, and the later Tuesdays
\* and Saturdays of the semester have no block
C25_Witness ==
    /\ Called("generate_course_sessions")
    /\ call.row_data = TuesdaySaturdayRow
    /\ SEMESTER_DATABASE[<<114, 1>>] = SeedDatabase[<<114, 1>>]
    /\ Len(ret.value) = 36
    /\ ret.value[3].week = Some(2)
    /\ ret.value[4].week = Some(2)
    /\ ret.value[36].week = Some(18)
    /\ Len(SmartOccurrences) > 36

----------------------------------------------------------------------------
(* Claims on get_class_dates running while the table is written, checked    *)
(* under SpecSync                                                           *)

\* the (start, end) pairs that are stored under a key at one time or another:
\* the pair of the seed and the pairs the writes carry
StoredVersions(key) ==
    SyncWindows \cup
        (IF key \in DOMAIN SeedDatabase
         THEN {<<SeedDatabase[key].start_date, SeedDatabase[key].end_date>>}
         ELSE {})

\* class_dates is what the loop gives from the start to the end of one
\* stored version of the semester of the call
ExpandsOneVersion(class_dates) ==
    \E v \in StoredVersions(<<call.semester_year, call.semester_num>>) :
        class_dates = class_dates_from(v[1], v[2], call.sessions, call.exclude_dates)

\* C26: a get_class_dates call that runs while update_semester_info and
\* apply_semesters_to_config write its key expands one stored version of the
\* semester: what the loop has collected when it ends, and what the call
\* returns, are the occurrences from the start to the end of one pair that
\* one write (or the seed) stored, never the start of one write with the end
\* of another; a key that was not seeded may give no occurrence at all
C26_ExpandsOneStoredVersion ==
    /\ (pc = "expanding" /\ ~LoopRuns) => ExpandsOneVersion(frame.class_dates)
    /\ (pc = "done" /\ call.op = "get_class_dates") =>
          \/ ExpandsOneVersion(ret.value)
          \/ /\ ret.value = <<>>
             /\ <<call.semester_year, call.semester_num>> \notin DOMAIN SeedDatabase

\* the loop of a call has ended with occurrences and the table now holds
\* another version of the semester than the one the call fetched
C26_Witness ==
    /\ pc = "expanding"
    /\ ~LoopRuns
    /\ frame.class_dates # <<>>
    /\ SEMESTER_DATABASE[<<call.semester_year, call.semester_num>>] # frame.semester

----------------------------------------------------------------------------
(* Claims on the batches of apply_semesters_to_config, checked under        *)
(* SpecSync                                                                 *)

\* a detected semester that has a start and an end, the start strictly before
\* the end
ValidItem(item) ==
    /\ item.start # None
    /\ item.end # None
    /\ item.start[1] < item.end[1]

\* the valid semesters of the batch the writer was given, in dict order
ValidGiven == SelectSeq(writer.given, ValidItem)

\* the step writes item under its key and leaves every other key as it is
WritesItem(item) ==
    /\ item.key \in DOMAIN SEMESTER_DATABASE'
    /\ SEMESTER_DATABASE'[item.key]
          = Semester(item.key[1], item.key[2], item.start[1], item.end[1])
    /\ \A key \in AllKeys \ {item.key} : SameEntry(key)

\* C27: from the seeded table on, every stored semester has its start
\* strictly before its end. A batch of apply_semesters_to_config takes as
\* many loop steps as it has valid semesters, never more; the n-th step
\* writes the n-th valid semester of the batch, so each is written once; and
\* no step of the batch changes the entry of the key of a semester that
\* lacks a start or an end or whose start is not strictly before its end.
C27_OnlyValidSemestersStored ==
    /\ [](\A key \in DOMAIN SEMESTER_DATABASE :
              SEMESTER_DATABASE[key].start_date < SEMESTER_DATABASE[key].end_date)
    /\ [](writer.op = "apply_semesters_to_config" =>
              writer.applied <= Len(ValidGiven))
    /\ [][ (writer.op = "apply_semesters_to_config" /\ writer' = writer) =>
              SEMESTER_DATABASE' = SEMESTER_DATABASE ]_vars
    /\ [][ \A valid \in {ValidGiven} :
            (ApplyStep /\ writer'.given = writer.given) =>
              /\ writer'.applied = writer.applied + 1
              /\ WritesItem(valid[writer'.applied])
              /\ \A i \in 1..Len(writer.given) :
                    ~ValidItem(writer.given[i]) => SameEntry(writer.given[i].key) ]_vars

\* a batch of a semester of (114, 1) whose start is after its end and of a
\* valid semester of (116, 1) has been applied: (116, 1) holds the dates of
\* the batch and (114, 1) still holds the dates of the seed
C27_Witness ==
    /\ writer.op = "apply_semesters_to_config"
    /\ Len(writer.given) = 2
    /\ writer.given[1].key = <<114, 1>>
    /\ writer.given[1].end # None
    /\ ~ValidItem(writer.given[1])
    /\ writer.given[2].key = <<116, 1>>
    /\ writer.applied = 1
    /\ Registered(116, 1)
    /\ SEMESTER_DATABASE[<<116, 1>>].start_date = writer.given[2].start[1]
    /\ SEMESTER_DATABASE[<<114, 1>>] = SeedDatabase[<<114, 1>>]

----------------------------------------------------------------------------
(* Claims on the choice between precise and legacy mode, checked under Spec *)

\* the blocks of a result without a week index and without times (the
\* legacy blocks)
LegacyBlocks(blocks) ==
    SelectSeq(blocks, LAMBDA b : b.week = None /\ b.start_time = None /\ b.end_time = None)

\* both global dates were given and read as dates
BothGlobalDatesParse ==
    /\ call.semester_start # None
    /\ call.semester_end # None
    /\ call.semester_start[1].ok
    /\ call.semester_end[1].ok

\* the blocks precise mode gives for the row of the call
PreciseBlocks == smart_mode_sessions(call.row_data)

\* C28: precise and legacy scheduling exclude each other for a course: the
\* generation raises nothing; its blocks hold a legacy block only if precise
\* mode gave no block and both global dates were given and read as dates,
\* and then all of them are legacy blocks; if precise mode gave a block the
\* blocks are those of precise mode and none is a legacy block; if precise
\* mode gave none and a global date is missing or does not read, the course
\* gets no block.
C28_PreciseOrLegacyNeverBoth ==
    Called("generate_course_sessions") =>
        \A precise \in {PreciseBlocks} :
            /\ ret.raised = "none"
            /\ LegacyBlocks(ret.value) # <<>> =>
                  /\ precise = <<>>
                  /\ BothGlobalDatesParse
                  /\ LegacyBlocks(ret.value) = ret.value
            /\ precise # <<>> =>
                  /\ ret.value = precise
                  /\ LegacyBlocks(ret.value) = <<>>
            /\ (precise = <<>> /\ BothGlobalDatesParse) =>
                  /\ ret.value # <<>>
                  /\ LegacyBlocks(ret.value) = ret.value
            /\ (precise = <<>> /\ ~BothGlobalDatesParse) => ret.value = <<>>

\* a row that precise mode schedules was generated with both global dates
\* given: the 18 blocks are those of precise mode
C28_Witness ==
    /\ Called("generate_course_sessions")
    /\ BothGlobalDatesParse
    /\ PreciseBlocks # <<>>
    /\ Len(ret.value) = 18
    /\ ret.value[1].week = Some(1)
    /\ LegacyBlocks(ret.value) = <<>>

----------------------------------------------------------------------------
(* Claims on the counters of the batch import, checked under SpecImport *)

\* the rows of the CSV of the call that are not blank
RowsToImport == non_blank_rows(call.rows)

\* how many of the first n create requests gave the page; how many did not
PagesGiven(n) == Cardinality({i \in 1..n : batch.pages[i].outcome = "page"})
PagesRefused(n) == Cardinality({i \in 1..n : batch.pages[i].outcome # "page"})

\* C29: import_csv_to_database takes every non-blank row once and counts it
\* once. While the batch runs, one create request has been made for each row
\* taken so far, in the order of the rows; imported is the number of requests
\* that gave a page and failed the number of those that gave nothing or
\* raised, whatever came before them. When the call has returned, every
\* non-blank row has been taken, imported + failed is their number, and the
\* errors of the result are the first ten messages at most.
C29_EveryRowCountedOnce ==
    (call.op = "import_csv_to_database" /\ pc \in {"importing", "done"}) =>
        \A rows \in {RowsToImport} :
            /\ batch # NoBatch =>
                  /\ batch.row_num <= Len(rows)
                  /\ Len(batch.pages) = batch.row_num
                  /\ \A i \in 1..batch.row_num :
                        batch.pages[i].properties = build_properties_from_csv_row(rows[i])
                  /\ batch.imported = PagesGiven(batch.row_num)
                  /\ batch.failed = PagesRefused(batch.row_num)
                  /\ batch.imported + batch.failed = batch.row_num
                  /\ Len(batch.errors) = batch.failed
            /\ pc = "done" =>
                  /\ ret.raised = "none"
                  /\ ret.value.imported + ret.value.failed = Len(rows)
                  /\ rows # <<>> =>
                        /\ batch.row_num = Len(rows)
                        /\ ret.value.imported = batch.imported
                        /\ ret.value.failed = batch.failed
                        /\ Len(ret.value.errors) <= 10
                        /\ \A i \in 1..Len(ret.value.errors) :
                              ret.value.errors[i] = batch.errors[i]

\* the import of the long CSV has returned: the first request raised, the
\* second gave a page, the third gave nothing, more than ten rows failed in
\* all and ten errors are returned
C29_Witness ==
    /\ call.op = "import_csv_to_database"
    /\ pc = "done"
    /\ batch # NoBatch
    /\ Len(batch.pages) = LongCsvRows
    /\ batch.pages[1].outcome = "raises"
    /\ batch.pages[2].outcome = "page"
    /\ batch.pages[3].outcome = "nothing"
    /\ ret.value.imported = 1
    /\ ret.value.failed > 10
    /\ Len(ret.value.errors) = 10

----------------------------------------------------------------------------
(* Claims on the periods of a group, checked under SpecParser *)

\* the tokens of a group whose first token names a weekday of the table
Resolvable(tokens) == tokens # <<>> /\ InTable(tokens[1][1][1])

\* every period number written in the group lies in 1..14
EveryPeriodInRange(tokens) == \A p \in TokenPeriods(tokens) : p \in 1..14

\* C30: a group whose first weekday is in the table gives a session if and
\* only if every period number of the group lies in 1..14: a period of 0 or
\* above 14 is the smallest or the largest of the group and leaves the group
\* without a session, and periods in range give one session from the
\* smallest to the largest whether or not the periods between them are
\* written. The sessions returned are as many as the groups that give one.
C30_SessionIffEveryPeriodInRange ==
    Composed =>
      LET groups == 1..NumGroups(call.pieces, call.seps)
          tokens(g) == GroupTokens(call.pieces, call.seps, g)
          resolvable == {g \in groups : Resolvable(tokens(g))}
          spans == {SpanOf(ret.value[i]) : i \in 1..Len(ret.value)}
      IN  /\ ret.raised = "none"
          /\ \A g \in resolvable :
                GroupSpan(tokens(g)) \in spans <=> EveryPeriodInRange(tokens(g))
          /\ Len(ret.value)
                = Cardinality({g \in resolvable : EveryPeriodInRange(tokens(g))})

\* "san2/san9,san0": the first group gives one session of periods 2..9
\* though 3..8 are not written; the second, with period 0, gives none
C30_Witness ==
    /\ Composed
    /\ call.pieces = <<  <<<<"san">>, 2>>, <<<<"san">>, 9>>, <<<<"san">>, 0>>  >>
    /\ call.seps = << <<"/">>, <<",">> >>
    /\ Len(ret.value) = 1
    /\ SpanOf(ret.value[1]) = <<2, 2, 9>>

====
